---- MODULE Spec2Model ----
(***************************************************************************)
(* Model of vts-mapproxy: the worker-side warp operations                   *)
(* (gdalsupport/operations.cpp), the geodata generators (geodata-mesh,      *)
(* geodata-semantic-tiled) and their metadata, the TmsRasterSynthetic       *)
(* resource definition and its JSON form, the warper pool that serves the  *)
(* requests, and the dataset preprocessing script.                         *)
(***************************************************************************)
EXTENDS Integers, Sequences, FiniteSets, TLC

(***************************************************************************)
(* Bounds of the model.                                                     *)
(***************************************************************************)
NumPaths == 2
NumPixels == 2
MaxDim == 2
MaxDefs == 2
MaxFileSize == 2
NumTiles == 2
NumMasks == 2
NumWorkers == 2
NumRequests == 2
MaxLines == 2
NumRanges == 2
MaxReturnCode == 2
MaxCoord == 1

Paths == 1..NumPaths
NoPath == 0
Pixels == 1..NumPixels
Sizes == [width : 1..MaxDim, height : 1..MaxDim]
Operations == {"image", "mask", "detailMask"}
\* a value of the operation field that is none of the enumerators
UnknownOperation == "unknown"

VARIABLES cache, mb, trace, result, wreq, wstage

\* generator: its kind, lifecycle state, resource and members
VARIABLES gkind, gstate, enforced, definition_, metadata_, index_, lastPrep

\* generator: the files under its root
VARIABLES geodata, metadataJson, tilesetIndex, deliveryIndex, deliveryTmp

\* generator: the file request being served
VARIABLES rstage, rfile, task, sink, dispatched, aborted

\* resource definitions: a pair of TmsRasterSynthetic definitions and their
\* change classification, either way round
VARIABLES defOld, defNew, changedFwd, changedRev

\* warper: the pool's workers, the requests handed to it, and the blocks
\* of the shared arena each request holds
VARIABLES workers, requests, arena

\* preprocessing script: what a run of get_ranges is given, and what it did
VARIABLES sargs, srun

\* serialization: a value, the JSON document built from it, and what the
\* document parses to
VARIABLES original, document, reparsed, rtStage

warpVars == <<cache, mb, trace, result, wreq, wstage>>
genVars == <<gkind, gstate, enforced, definition_, metadata_, index_, lastPrep
             , geodata, metadataJson, tilesetIndex, deliveryIndex, deliveryTmp
             , rstage, rfile, task, sink, dispatched, aborted>>
defVars == <<defOld, defNew, changedFwd, changedRev>>
poolVars == <<workers, requests, arena>>
scriptVars == <<sargs, srun>>
rtVars == <<original, document, reparsed, rtStage>>
vars == <<warpVars, genVars, defVars, poolVars, scriptVars, rtVars>>

(***************************************************************************)
(* Worker side: gdalsupport/operations.cpp                                  *)
(***************************************************************************)

\* sizeof(cv::Mat) on LP64
MatHeaderSize == 96

\* CV_ELEM_SIZE of the element types used: CV_8U per channel, CV_64F
ElemSize8U == 1
ElemSize64F == 8

\* number of channels of the raster stored under a path
Channels(p) == 1 + (p % 3)

Ev(e, role, arg) == [ev |-> e, role |-> role, arg |-> arg]

Ok(size) == [status |-> "ok", msg |-> "", mat |-> size]
Thrown(kind, msg) == [status |-> kind, msg |-> msg, mat |-> 0]

NotFound(msg) == Thrown("NotFound", msg)
InternalError(msg) == Thrown("InternalError", msg)
OpenFailed == Thrown("OpenError", "Failed to open dataset.")

Out(c, m, t, r) == [cache |-> c, mb |-> m, trace |-> t, result |-> r]

\* a DatasetCache that keeps one handle per path, whatever it was opened for
CacheResolve_ignoresKind(c, path, kind, role, unopenable) ==
    LET key == <<path, "dataset">>
        call == Ev("resolve:" \o kind, role, path)
    IN  IF key \in c
        THEN [ok |-> TRUE, cache |-> c, trace |-> <<call>>]
        ELSE IF path \in unopenable
             THEN [ok |-> FALSE, cache |-> c
                   , trace |-> <<call, Ev("open", role, path)>>]
             ELSE [ok |-> TRUE, cache |-> c \cup {key}
                   , trace |-> <<call, Ev("open", role, path)>>]

\* DatasetCache::dataset(path) / DatasetCache::mask(path): the handle kept
\* under (path, kind) is returned; on a miss the dataset is opened, and kept
\* only when the open succeeded.
CacheResolve(c, path, kind, role, unopenable) ==
    LET key == <<path, kind>>
        call == Ev("resolve:" \o kind, role, path)
    IN  IF key \in c
        THEN [ok |-> TRUE, cache |-> c, trace |-> <<call>>]
        ELSE IF path \in unopenable
             THEN [ok |-> FALSE, cache |-> c
                   , trace |-> <<call, Ev("open", role, path)>>]
             ELSE [ok |-> TRUE, cache |-> c \cup {key}
                   , trace |-> <<call, Ev("open", role, path)>>]

area(size) == size.width * size.height

\* geo::GeoDataset::deriveInMemory(src, srs, size, extents): the in-memory
\* dataset a warp fills.  A request's SRS and extents go with its size, so
\* the geometry is identified by the size, written as one number.
deriveInMemory(role, size) ==
    Ev("derive", role, size.width * (MaxDim + 1) + size.height)

\* allocateMat that asks the arena for the pixel bytes only
allocateMat_dataOnly(m, size, elemSize) ==
    LET dataSize == area(size) * elemSize
        matSize == dataSize
    IN  [mb |-> Append(m, matSize), block |-> matSize, data |-> 0
         , trace |-> <<Ev("alloc", "result", matSize)>>]

\* allocateMat: one block holding the matrix header followed by the data;
\* data is the offset in the block the matrix keeps its pixels at
allocateMat(m, size, elemSize) ==
    LET dataSize == area(size) * elemSize
        matSize == MatHeaderSize + dataSize
    IN  [mb |-> Append(m, matSize), block |-> matSize
         , data |-> MatHeaderSize
         , trace |-> <<Ev("alloc", "result", matSize)>>]

\* size of the matrix a validity mask is stored in (imgproc maskMatSize)
maskMatSize(cmask) == [width |-> NumPixels, height |-> 1]

\* warpImage with the mask dataset resolved ahead of the first validity check
warpImage_maskResolvedEarly(c, m, req) ==
    LET src == CacheResolve(c, req.dataset, "dataset", "primary"
                            , req.unopenable)
    IN
    IF ~src.ok THEN Out(src.cache, m, src.trace, OpenFailed)
    ELSE
    LET t1 == src.trace \o <<deriveInMemory("primary", req.size)
                           , Ev("warp", "primary", req.dataset)>>
        dst == req.cm
        srcMask == CacheResolve(src.cache, req.mask, "dataset", "mask"
                                , req.unopenable)
    IN
    IF req.mask # NoPath /\ ~srcMask.ok
    THEN Out(srcMask.cache, m, t1 \o srcMask.trace, OpenFailed)
    ELSE
    LET c2 == IF req.mask # NoPath THEN srcMask.cache ELSE src.cache
        t2 == IF req.mask # NoPath
              THEN t1 \o srcMask.trace
                      \o <<deriveInMemory("mask", req.size)
                           , Ev("warp", "mask", req.mask)
                           , Ev("applyMask", "mask", req.mask)>>
              ELSE t1
        masked == IF req.mask # NoPath THEN dst \cap req.mm ELSE dst
    IN
    IF masked = {} THEN Out(c2, m, t2, NotFound("No valid data."))
    ELSE
    LET tile == allocateMat(m, req.size
                            , ElemSize8U * Channels(req.dataset))
    IN  Out(c2, tile.mb
            , t2 \o tile.trace \o <<Ev("fill", "result", tile.data)>>
            , Ok(tile.block))

\* warpImage that allocates the result ahead of the validity checks
warpImage_allocatesFirst(c, m, req) ==
    LET src == CacheResolve(c, req.dataset, "dataset", "primary"
                            , req.unopenable)
    IN
    IF ~src.ok THEN Out(src.cache, m, src.trace, OpenFailed)
    ELSE
    LET tile == allocateMat(m, req.size
                            , ElemSize8U * Channels(req.dataset))
        t1 == src.trace \o <<deriveInMemory("primary", req.size)
                             , Ev("warp", "primary", req.dataset)>>
        dst == req.cm
    IN
    IF dst = {} THEN Out(src.cache, tile.mb, t1, NotFound("No valid data."))
    ELSE
    LET srcMask == CacheResolve(src.cache, req.mask, "dataset", "mask"
                                , req.unopenable)
    IN
    IF req.mask # NoPath /\ ~srcMask.ok
    THEN Out(srcMask.cache, tile.mb, t1 \o srcMask.trace, OpenFailed)
    ELSE
    LET c2 == IF req.mask # NoPath THEN srcMask.cache ELSE src.cache
        t2 == IF req.mask # NoPath
              THEN t1 \o srcMask.trace
                      \o <<deriveInMemory("mask", req.size)
                           , Ev("warp", "mask", req.mask)
                           , Ev("applyMask", "mask", req.mask)>>
              ELSE t1
        masked == IF req.mask # NoPath THEN dst \cap req.mm ELSE dst
    IN
    IF masked = {} THEN Out(c2, tile.mb, t2, NotFound("No valid data."))
    ELSE Out(c2, tile.mb
             , t2 \o tile.trace \o <<Ev("fill", "result", tile.data)>>
             , Ok(tile.block))

warpImage(c, m, req) ==
    LET src == CacheResolve(c, req.dataset, "dataset", "primary"
                            , req.unopenable)
    IN
    IF ~src.ok THEN Out(src.cache, m, src.trace, OpenFailed)
    ELSE
    LET t1 == src.trace \o <<deriveInMemory("primary", req.size)
                           , Ev("warp", "primary", req.dataset)>>
        dst == req.cm
    IN
    IF dst = {} THEN Out(src.cache, m, t1, NotFound("No valid data."))
    ELSE
    LET srcMask == CacheResolve(src.cache, req.mask, "dataset", "mask"
                                , req.unopenable)
    IN
    IF req.mask # NoPath /\ ~srcMask.ok
    THEN Out(srcMask.cache, m, t1 \o srcMask.trace, OpenFailed)
    ELSE
    LET c2 == IF req.mask # NoPath THEN srcMask.cache ELSE src.cache
        t2 == IF req.mask # NoPath
              THEN t1 \o srcMask.trace
                      \o <<deriveInMemory("mask", req.size)
                           , Ev("warp", "mask", req.mask)
                           , Ev("applyMask", "mask", req.mask)>>
              ELSE t1
        masked == IF req.mask # NoPath THEN dst \cap req.mm ELSE dst
    IN
    IF masked = {} THEN Out(c2, m, t2, NotFound("No valid data."))
    ELSE
    LET tile == allocateMat(m, req.size
                            , ElemSize8U * Channels(req.dataset))
    IN  Out(c2, tile.mb
            , t2 \o tile.trace \o <<Ev("fill", "result", tile.data)>>
            , Ok(tile.block))

\* warpMask without the validity check that follows the masking
warpMask_noCheckAfterMask(c, m, req) ==
    LET src == CacheResolve(c, req.dataset, "dataset", "primary"
                            , req.unopenable)
    IN
    IF ~src.ok THEN Out(src.cache, m, src.trace, OpenFailed)
    ELSE
    LET t1 == src.trace \o <<deriveInMemory("primary", req.size)
                           , Ev("warp", "primary", req.dataset)>>
        dst == req.cm
    IN
    IF dst = {} THEN Out(src.cache, m, t1, NotFound("No valid data."))
    ELSE
    LET srcMask == CacheResolve(src.cache, req.mask, "dataset", "mask"
                                , req.unopenable)
    IN
    IF req.mask # NoPath /\ ~srcMask.ok
    THEN Out(srcMask.cache, m, t1 \o srcMask.trace, OpenFailed)
    ELSE
    LET c2 == IF req.mask # NoPath THEN srcMask.cache ELSE src.cache
        t2 == IF req.mask # NoPath
              THEN t1 \o srcMask.trace
                      \o <<deriveInMemory("mask", req.size)
                           , Ev("warp", "mask", req.mask)
                           , Ev("applyMask", "mask", req.mask)>>
              ELSE t1
        masked == IF req.mask # NoPath THEN dst \cap req.mm ELSE dst
        mask == allocateMat(m, maskMatSize(masked), ElemSize8U)
    IN  Out(c2, mask.mb
            , t2 \o mask.trace \o <<Ev("fill", "result", mask.data)>>
            , Ok(mask.block))

\* warpMask that derives the mask's destination with a size of its own
warpMask_maskOwnGeometry(c, m, req) ==
    LET src == CacheResolve(c, req.dataset, "dataset", "primary"
                            , req.unopenable)
    IN
    IF ~src.ok THEN Out(src.cache, m, src.trace, OpenFailed)
    ELSE
    LET t1 == src.trace \o <<deriveInMemory("primary", req.size)
                           , Ev("warp", "primary", req.dataset)>>
        dst == req.cm
    IN
    IF dst = {} THEN Out(src.cache, m, t1, NotFound("No valid data."))
    ELSE
    LET srcMask == CacheResolve(src.cache, req.mask, "dataset", "mask"
                                , req.unopenable)
    IN
    IF req.mask # NoPath /\ ~srcMask.ok
    THEN Out(srcMask.cache, m, t1 \o srcMask.trace, OpenFailed)
    ELSE
    LET c2 == IF req.mask # NoPath THEN srcMask.cache ELSE src.cache
        t2 == IF req.mask # NoPath
              THEN t1 \o srcMask.trace
                      \o <<deriveInMemory("mask"
                                          , [width |-> req.size.height + 1
                                             , height |-> req.size.width])
                           , Ev("warp", "mask", req.mask)
                           , Ev("applyMask", "mask", req.mask)>>
              ELSE t1
        masked == IF req.mask # NoPath THEN dst \cap req.mm ELSE dst
    IN
    IF masked = {} THEN Out(c2, m, t2, NotFound("No valid data."))
    ELSE
    LET mask == allocateMat(m, maskMatSize(masked), ElemSize8U)
    IN  Out(c2, mask.mb
            , t2 \o mask.trace \o <<Ev("fill", "result", mask.data)>>
            , Ok(mask.block))

warpMask(c, m, req) ==
    LET src == CacheResolve(c, req.dataset, "dataset", "primary"
                            , req.unopenable)
    IN
    IF ~src.ok THEN Out(src.cache, m, src.trace, OpenFailed)
    ELSE
    LET t1 == src.trace \o <<deriveInMemory("primary", req.size)
                           , Ev("warp", "primary", req.dataset)>>
        dst == req.cm
    IN
    IF dst = {} THEN Out(src.cache, m, t1, NotFound("No valid data."))
    ELSE
    LET srcMask == CacheResolve(src.cache, req.mask, "dataset", "mask"
                                , req.unopenable)
    IN
    IF req.mask # NoPath /\ ~srcMask.ok
    THEN Out(srcMask.cache, m, t1 \o srcMask.trace, OpenFailed)
    ELSE
    LET c2 == IF req.mask # NoPath THEN srcMask.cache ELSE src.cache
        t2 == IF req.mask # NoPath
              THEN t1 \o srcMask.trace
                      \o <<deriveInMemory("mask", req.size)
                           , Ev("warp", "mask", req.mask)
                           , Ev("applyMask", "mask", req.mask)>>
              ELSE t1
        masked == IF req.mask # NoPath THEN dst \cap req.mm ELSE dst
    IN
    IF masked = {} THEN Out(c2, m, t2, NotFound("No valid data."))
    ELSE
    LET mask == allocateMat(m, maskMatSize(masked), ElemSize8U)
    IN  Out(c2, mask.mb
            , t2 \o mask.trace \o <<Ev("fill", "result", mask.data)>>
            , Ok(mask.block))

\* warpDetailMask with the primary dataset resolved ahead of the mask test
warpDetailMask_readsPrimary(c, m, req) ==
    LET src == CacheResolve(c, req.dataset, "dataset", "primary"
                            , req.unopenable)
    IN
    IF ~src.ok THEN Out(src.cache, m, src.trace, OpenFailed)
    ELSE
    IF req.mask = NoPath
    THEN Out(src.cache, m, src.trace
             , InternalError("Unimplemented: TODO: generate metatile from data."))
    ELSE
    LET srcMask == CacheResolve(src.cache, req.mask, "mask", "mask"
                                , req.unopenable)
    IN
    IF ~srcMask.ok
    THEN Out(srcMask.cache, m, src.trace \o srcMask.trace, OpenFailed)
    ELSE
    LET t1 == src.trace \o srcMask.trace
                        \o <<deriveInMemory("mask", req.size)
                             , Ev("warp", "mask", req.mask)>>
        tile == allocateMat(m, req.size, ElemSize64F)
    IN  Out(srcMask.cache, tile.mb
            , t1 \o tile.trace \o <<Ev("fill", "result", tile.data)>>
            , Ok(tile.block))

warpDetailMask(c, m, req) ==
    IF req.mask = NoPath
    THEN Out(c, m, <<>>
             , InternalError("Unimplemented: TODO: generate metatile from data."))
    ELSE
    LET srcMask == CacheResolve(c, req.mask, "mask", "mask", req.unopenable)
    IN
    IF ~srcMask.ok THEN Out(srcMask.cache, m, srcMask.trace, OpenFailed)
    ELSE
    LET t1 == srcMask.trace \o <<deriveInMemory("mask", req.size)
                               , Ev("warp", "mask", req.mask)>>
        tile == allocateMat(m, req.size, ElemSize64F)
    IN  Out(srcMask.cache, tile.mb
            , t1 \o tile.trace \o <<Ev("fill", "result", tile.data)>>
            , Ok(tile.block))

\* the worker process has ended in std::terminate
Terminated ==
    [status |-> "terminated"
     , msg |-> "terminate called without an active exception", mat |-> 0]

\* warp that hands back an empty result where an operation throws
warp_neverFails(c, m, req) ==
    LET out == CASE req.operation = "image" -> warpImage(c, m, req)
                 [] req.operation = "mask" -> warpMask(c, m, req)
                 [] req.operation = "detailMask" -> warpDetailMask(c, m, req)
                 [] OTHER -> Out(c, m, <<>>, Terminated)
    IN  IF out.result.status \in {"ok", "terminated"}
        THEN out
        ELSE [out EXCEPT !.result = Ok(0)]

\* warp: past the switch there is a throw-expression with no operand and
\* no exception being handled, which calls std::terminate
warp(c, m, req) ==
    CASE req.operation = "image" -> warpImage(c, m, req)
      [] req.operation = "mask" -> warpMask(c, m, req)
      [] req.operation = "detailMask" -> warpDetailMask(c, m, req)
      [] OTHER -> Out(c, m, <<>>, Terminated)

(***************************************************************************)
(* Generators: geodata-mesh.cpp and geodata-semantic-tiled.cpp              *)
(*                                                                         *)
(* A definition is identified by its version: every unsafe change makes a  *)
(* new version.  What a preparation computes from a definition (the mesh   *)
(* extents, the geodata, the tile index) carries the version it was        *)
(* computed from.  File sizes are counted in units of 2^30 bytes.          *)
(***************************************************************************)

Tiles == 1..NumTiles
NoTile == 0
FileSizes == 1..MaxFileSize
VectorFormats == {"geodataJson", "other"}
StyleUrls == {"", "file:style.json"}

\* the values of a 32 bit int, in units of 2^30 bytes: -2 .. 1
IntRange == 4

\* int(std::size_t): the value modulo 2^32, as a signed number
IntCast(n) == ((n + IntRange \div 2) % IntRange) - IntRange \div 2

\* math::Extents3: lower and upper corner
Extents3(ll, ur) == [ll |-> ll, ur |-> ur]

\* vr::Position as far as the mesh generator sets it
Position(type, heightMode, position) ==
    [type |-> type, heightMode |-> heightMode, position |-> position]

\* a default-constructed GeodataMesh::Metadata
NoMetadata ==
    [extents |-> Extents3(<<0, 0, 0>>, <<0, 0, 0>>), fileSize |-> 0
     , position |-> Position("objective", "fixed", 0)]

\* a JSON document with no member set
NoJson == [extents |-> <<>>, fileSize |-> 0, position |-> <<>>]

\* metadata.json: complete when its JSON document was written to the end
NoJsonFile == [exists |-> FALSE, complete |-> FALSE, content |-> NoJson]
NoDataFile == [exists |-> FALSE, data |-> 0, size |-> 0]
NoIndexFile == [exists |-> FALSE, complete |-> FALSE, version |-> 0
                , tiles |-> {}]
NoIndex == [set |-> FALSE, version |-> 0, tiles |-> {}]

\* vr::asJson(const Position&): an array that starts with the type and
\* holds the height mode after the horizontal position
asJson(position) ==
    <<IF position.type = "objective" THEN "obj" ELSE "subj"
      , position.position
      , IF position.heightMode = "fixed" THEN "fix" ELSE "float">>

\* vr::positionFromJson
positionFromJson(value) ==
    Position(IF value[1] = "obj" THEN "objective" ELSE "subjective"
             , IF value[3] = "fix" THEN "fixed" ELSE "floating"
             , value[2])

\* build(Json::Value&, const GeodataMesh::Metadata&)
build(metadata) ==
    [extents |-> <<metadata.extents.ll[1], metadata.extents.ll[2]
                   , metadata.extents.ll[3], metadata.extents.ur[1]
                   , metadata.extents.ur[2], metadata.extents.ur[3]>>
     , fileSize |-> IntCast(metadata.fileSize)
     , position |-> asJson(metadata.position)]

\* Json::Value::operator[] const and asDouble(): an index past the end of
\* the array reads as null, and null as 0.0
asDouble(array, i) == IF i <= Len(array) THEN array[i] ELSE 0

\* parse(GeodataMesh::Metadata&, const Json::Value&) into a
\* default-constructed Metadata: Json::get into a std::size_t refuses a
\* negative number; a document without position leaves the position alone
parse(value) ==
    IF value.fileSize < 0
    THEN [ok |-> FALSE, metadata |-> NoMetadata]
    ELSE [ok |-> TRUE
          , metadata |->
              [extents |-> Extents3(<<asDouble(value.extents, 1)
                                      , asDouble(value.extents, 2)
                                      , asDouble(value.extents, 3)>>
                                    , <<asDouble(value.extents, 4)
                                        , asDouble(value.extents, 5)
                                        , asDouble(value.extents, 6)>>)
               , fileSize |-> value.fileSize
               , position |-> IF value.position = <<>>
                              THEN NoMetadata.position
                              ELSE positionFromJson(value.position)]]

\* loadMetadata: a file that cannot be opened, or does not hold a whole
\* JSON document, throws
loadMetadata(file) ==
    IF ~file.exists \/ ~file.complete
    THEN [ok |-> FALSE, metadata |-> NoMetadata]
    ELSE parse(file.content)

\* saveMetadata: the file is opened for writing, which empties it, and the
\* document is written; failing is either the open or the write
SaveOutcomes == {"ok", "open", "write"}

saveMetadata(file, metadata, outcome) ==
    CASE outcome = "open" -> [ok |-> FALSE, file |-> file]
      [] outcome = "write" ->
            [ok |-> FALSE
             , file |-> [exists |-> TRUE, complete |-> FALSE
                         , content |-> NoJson]]
      [] outcome = "ok" ->
            [ok |-> TRUE
             , file |-> [exists |-> TRUE, complete |-> TRUE
                         , content |-> build(metadata)]]

\* GeodataMesh::GeodataMesh made ready whether or not metadata.json loads
GeodataMesh_ctor_noMetadataCheck(changeEnforced, mdFile, dataFile) ==
    IF changeEnforced
    THEN [constructed |-> TRUE, ready |-> FALSE, metadata_ |-> NoMetadata]
    ELSE [constructed |-> TRUE, ready |-> TRUE
          , metadata_ |-> loadMetadata(mdFile).metadata]

\* GeodataMesh::GeodataMesh without the test of changeEnforced()
GeodataMesh_ctor_ignoresEnforced(changeEnforced, mdFile, dataFile) ==
    LET loaded == loadMetadata(mdFile)
    IN  IF ~loaded.ok
        THEN [constructed |-> TRUE, ready |-> FALSE
              , metadata_ |-> NoMetadata]
        ELSE IF dataFile.exists /\ dataFile.size = loaded.metadata.fileSize
             THEN [constructed |-> TRUE, ready |-> TRUE
                   , metadata_ |-> loaded.metadata]
             ELSE [constructed |-> TRUE, ready |-> FALSE
                   , metadata_ |-> loaded.metadata]

\* GeodataMesh::GeodataMesh made ready by any metadata.json that loads
GeodataMesh_ctor_noSizeCheck(changeEnforced, mdFile, dataFile) ==
    IF changeEnforced
    THEN [constructed |-> TRUE, ready |-> FALSE, metadata_ |-> NoMetadata]
    ELSE
    LET loaded == loadMetadata(mdFile)
    IN  IF ~loaded.ok
        THEN [constructed |-> TRUE, ready |-> FALSE
              , metadata_ |-> NoMetadata]
        ELSE [constructed |-> TRUE, ready |-> TRUE
              , metadata_ |-> loaded.metadata]

\* GeodataMesh::GeodataMesh
GeodataMesh_ctor(changeEnforced, mdFile, dataFile) ==
    IF changeEnforced
    THEN [constructed |-> TRUE, ready |-> FALSE, metadata_ |-> NoMetadata]
    ELSE
    LET loaded == loadMetadata(mdFile)
    IN  IF ~loaded.ok
        THEN [constructed |-> TRUE, ready |-> FALSE
              , metadata_ |-> NoMetadata]
        ELSE IF dataFile.exists /\ dataFile.size = loaded.metadata.fileSize
             THEN [constructed |-> TRUE, ready |-> TRUE
                   , metadata_ |-> loaded.metadata]
             ELSE [constructed |-> TRUE, ready |-> FALSE
                   , metadata_ |-> loaded.metadata]

\* GeodataSemanticTiled::GeodataSemanticTiled
GeodataSemanticTiled_ctor(changeEnforced, demOpens) ==
    IF ~demOpens
    THEN [constructed |-> FALSE, ready |-> FALSE, metadata_ |-> NoMetadata]
    ELSE IF changeEnforced
         THEN [constructed |-> TRUE, ready |-> FALSE
               , metadata_ |-> NoMetadata]
         ELSE [constructed |-> TRUE, ready |-> FALSE
               , metadata_ |-> NoMetadata]

Prepared(ok, md, idx, data, mdFile, ts, dlv, tmp) ==
    [ok |-> ok, metadata_ |-> md, index_ |-> idx, geodata |-> data
     , metadataJson |-> mdFile, tilesetIndex |-> ts, deliveryIndex |-> dlv
     , deliveryTmp |-> tmp]

\* fl.boundingBox() of the mesh of a definition, in the physical SRS
MeshExtents(version) ==
    Extents3(<<version, version + 1, version + 2>>
             , <<version + 3, version + 4, version + 5>>)

\* the position GeodataMesh::prepare_impl derives from the mesh
MeshPosition(version) == Position("objective", "floating", version)

\* GeodataMesh::prepare_impl that writes the geodata whatever the format
GeodataMesh_prepare_impl_anyFormat(def, md, idx, data, mdFile, ts, dlv, tmp, in) ==
    IF ~in.meshLoads
    THEN Prepared(FALSE, md, idx, data, mdFile, ts, dlv, tmp)
    ELSE
    LET md1 == [md EXCEPT !.position = MeshPosition(def.version)
                          , !.extents = MeshExtents(def.version)]
        opened == [exists |-> TRUE, data |-> def.version, size |-> 0]
        written == [opened EXCEPT !.size = in.size]
        md2 == [md1 EXCEPT !.fileSize = written.size]
        saved == saveMetadata(mdFile, md2, in.save)
    IN  Prepared(saved.ok, md2, idx, written, saved.file, ts, dlv, tmp)

\* GeodataMesh::prepare_impl; in: whether the mesh loads, the number of bytes
\* the geodata takes, whether metadata.json can be written
GeodataMesh_prepare_impl(def, md, idx, data, mdFile, ts, dlv, tmp, in) ==
    IF ~in.meshLoads
    THEN Prepared(FALSE, md, idx, data, mdFile, ts, dlv, tmp)
    ELSE
    LET md1 == [md EXCEPT !.position = MeshPosition(def.version)
                          , !.extents = MeshExtents(def.version)]
        opened == [exists |-> TRUE, data |-> def.version, size |-> 0]
    IN
    IF def.format # "geodataJson" \/ ~def.formatConfig
    THEN Prepared(FALSE, md1, idx, opened, mdFile, ts, dlv, tmp)
    ELSE
    LET written == [opened EXCEPT !.size = in.size]
        md2 == [md1 EXCEPT !.fileSize = written.size]
        saved == saveMetadata(mdFile, md2, in.save)
    IN  Prepared(saved.ok, md2, idx, written, saved.file, ts, dlv, tmp)

\* GeodataSemanticTiled::prepare_impl that leaves index_ as it was
GeodataSemanticTiled_prepare_impl_keepsIndex(def, md, idx, data, mdFile, ts, dlv, tmp, in) ==
    IF in.failAt \in {"open", "tiling", "save"}
    THEN Prepared(FALSE, md, idx, data, mdFile, ts, dlv, tmp)
    ELSE
    LET index == [exists |-> TRUE, complete |-> TRUE
                  , version |-> def.version, tiles |-> in.tiles]
    IN
    IF in.failAt = "write"
    THEN Prepared(FALSE, md, idx, data, mdFile, index, dlv
                  , [index EXCEPT !.complete = FALSE])
    ELSE
    IF in.failAt = "rename"
    THEN Prepared(FALSE, md, idx, data, mdFile, index, dlv, index)
    ELSE Prepared(TRUE, md, idx, data, mdFile, index, index, NoIndexFile)

\* GeodataSemanticTiled::prepare_impl that writes the delivery index
\* straight into delivery.index
GeodataSemanticTiled_prepare_impl_inPlace(def, md, idx, data, mdFile, ts, dlv, tmp, in) ==
    IF in.failAt \in {"open", "tiling", "save"}
    THEN Prepared(FALSE, md, idx, data, mdFile, ts, dlv, tmp)
    ELSE
    LET index == [exists |-> TRUE, complete |-> TRUE
                  , version |-> def.version, tiles |-> in.tiles]
    IN
    IF in.failAt = "write"
    THEN Prepared(FALSE, md, idx, data, mdFile, index
                  , [index EXCEPT !.complete = FALSE], tmp)
    ELSE
    IF in.failAt = "rename"
    THEN Prepared(FALSE, md, idx, data, mdFile, index, index, tmp)
    ELSE Prepared(TRUE, md
                  , [set |-> TRUE, version |-> index.version
                     , tiles |-> index.tiles]
                  , data, mdFile, index, index, tmp)

\* GeodataSemanticTiled::prepare_impl; in: the step that fails (if any) and
\* the tiles prepareTileIndex finds
GeodataSemanticTiled_prepare_impl(def, md, idx, data, mdFile, ts, dlv, tmp, in) ==
    IF in.failAt \in {"open", "tiling", "save"}
    THEN Prepared(FALSE, md, idx, data, mdFile, ts, dlv, tmp)
    ELSE
    LET index == [exists |-> TRUE, complete |-> TRUE
                  , version |-> def.version, tiles |-> in.tiles]
    IN
    IF in.failAt = "write"
    THEN Prepared(FALSE, md, idx, data, mdFile, index, dlv
                  , [index EXCEPT !.complete = FALSE])
    ELSE
    IF in.failAt = "rename"
    THEN Prepared(FALSE, md, idx, data, mdFile, index, dlv, index)
    ELSE Prepared(TRUE, md
                  , [set |-> TRUE, version |-> index.version
                     , tiles |-> index.tiles]
                  , data, mdFile, index, index, NoIndexFile)

\* GeodataFileInfo::Type
FileTypes == {"geo", "metatile", "config", "definition", "support"
              , "registry", "style", "unknown"}

NoTask == [type |-> "none", tileId |-> NoTile]
SinkContent(what, data) ==
    [kind |-> "content", what |-> what, msg |-> "", data |-> data]
SinkError(what, msg) ==
    [kind |-> "error", what |-> what, msg |-> msg, data |-> 0]
Routed(writes, t) == [sink |-> writes, task |-> t]

stylePath_(def) == IF def.styleUrl = "" THEN "" ELSE "style.json"

\* GeodataSemanticTiled::generateFile_impl with the break after the config
\* case missing
GeodataSemanticTiled_generateFile_impl_fallsThrough(def, fi) ==
    CASE fi.type = "geo" -> Routed(<<>>, fi)
      [] fi.type = "metatile" -> Routed(<<>>, fi)
      [] fi.type = "config" ->
            Routed(<<SinkContent("config", def.version)
                     , SinkContent("definition", def.version)>>, NoTask)
      [] fi.type = "definition" ->
            Routed(<<SinkContent("definition", def.version)>>, NoTask)
      [] fi.type = "support" ->
            Routed(<<SinkContent("support", 0)>>, NoTask)
      [] fi.type = "registry" ->
            Routed(<<SinkContent("registry", 0)>>, NoTask)
      [] fi.type = "style" ->
            IF stylePath_(def) = ""
            THEN Routed(<<SinkContent("support", 0)>>, NoTask)
            ELSE Routed(<<SinkContent("style", 0)>>, NoTask)
      [] OTHER -> Routed(<<SinkError("NotFound", "Not Found.")>>, NoTask)

\* GeodataSemanticTiled::generateFile_impl
GeodataSemanticTiled_generateFile_impl(def, fi) ==
    CASE fi.type = "geo" -> Routed(<<>>, fi)
      [] fi.type = "metatile" -> Routed(<<>>, fi)
      [] fi.type = "config" ->
            Routed(<<SinkContent("config", def.version)>>, NoTask)
      [] fi.type = "definition" ->
            Routed(<<SinkContent("definition", def.version)>>, NoTask)
      [] fi.type = "support" ->
            Routed(<<SinkContent("support", 0)>>, NoTask)
      [] fi.type = "registry" ->
            Routed(<<SinkContent("registry", 0)>>, NoTask)
      [] fi.type = "style" ->
            IF stylePath_(def) = ""
            THEN Routed(<<SinkContent("support", 0)>>, NoTask)
            ELSE Routed(<<SinkContent("style", 0)>>, NoTask)
      [] OTHER -> Routed(<<SinkError("NotFound", "Not Found.")>>, NoTask)

\* GeodataMesh::generateFile_impl
GeodataMesh_generateFile_impl(def, fi) ==
    CASE fi.type = "geo" -> Routed(<<>>, fi)
      [] fi.type = "config" ->
            Routed(<<SinkContent("config", def.version)>>, NoTask)
      [] fi.type = "definition" ->
            Routed(<<SinkContent("definition", def.version)>>, NoTask)
      [] fi.type = "support" ->
            Routed(<<SinkContent("support", 0)>>, NoTask)
      [] fi.type = "registry" ->
            Routed(<<SinkContent("registry", 0)>>, NoTask)
      [] fi.type = "style" ->
            IF stylePath_(def) = ""
            THEN Routed(<<SinkContent("support", 0)>>, NoTask)
            ELSE Routed(<<SinkContent("style", 0)>>, NoTask)
      [] OTHER -> Routed(<<SinkError("NotFound", "Not Found.")>>, NoTask)

Ran(writes, d) == [sink |-> writes, dispatched |-> d]

\* GeodataSemanticTiled::generateMetatile; metatileOK: metatileFromDem gets
\* its rasters from the warper
GeodataSemanticTiled_generateMetatile(idx, fi, isAborted, metatileOK) ==
    IF isAborted THEN Ran(<<>>, <<>>)
    ELSE IF fi.tileId \notin idx.tiles
    THEN Ran(<<SinkError("NotFound", "Metatile not found.")>>, <<>>)
    ELSE IF ~metatileOK
    THEN Ran(<<SinkError("NotFound", "No valid data.")>>, <<"warp">>)
    ELSE Ran(<<SinkContent("metatile", idx.version)>>, <<"warp">>)

\* GeodataSemanticTiled::generateGeodata: a SemanticRequest goes to the
\* warper; its consume() writes nothing
GeodataSemanticTiled_generateGeodata(idx, fi, isAborted) ==
    Ran(<<>>, <<"custom">>)

\* GeodataMesh::generateGeodata
GeodataMesh_generateGeodata(data, fi) ==
    Ran(<<SinkContent("data", data.data)>>, <<>>)

(***************************************************************************)
(* Resource definitions: definition/tms-raster-synthetic.cpp                *)
(***************************************************************************)

RasterFormats == {"jpg", "png"}

\* boost::optional<std::string>
None == [set |-> FALSE, value |-> 0]
Some(v) == [set |-> TRUE, value |-> v]
Masks == {None} \cup {Some(v) : v \in 1..NumMasks}

\* operator== of boost::optional: both empty, or both set to equal values
OptionalEq(a, b) ==
    IF a.set /\ b.set THEN a.value = b.value ELSE a.set = b.set

\* the part of a definition TmsCommon holds: one field whose change needs
\* a regeneration and one whose change does not
TmsCommons == [unsafe : 1..2, safe : 1..2]

TmsRasterSynthetics ==
    [mask : Masks, format : RasterFormats, common : TmsCommons]

\* TmsCommon::changed_impl
TmsCommon_changed_impl(this, other) ==
    IF this.common.unsafe # other.common.unsafe THEN "yes"
    ELSE IF this.common.safe # other.common.safe THEN "safely"
    ELSE "no"

\* changed_impl with the two tests in the other order
changed_impl_formatFirst(this, other) ==
    IF this.format # other.format THEN "safely"
    ELSE IF ~OptionalEq(this.mask, other.mask) THEN "yes"
    ELSE TmsCommon_changed_impl(this, other)

\* TmsRasterSynthetic::changed_impl
TmsRasterSynthetic_changed_impl(this, other) ==
    IF ~OptionalEq(this.mask, other.mask) THEN "yes"
    ELSE IF this.format # other.format THEN "safely"
    ELSE TmsCommon_changed_impl(this, other)

\* a TmsRasterSynthetic as its constructor leaves it
DefaultTmsRasterSynthetic ==
    [mask |-> None, format |-> "jpg", common |-> [unsafe |-> 1, safe |-> 1]]

\* a JSON object: the names of its members, and their values
JsonObject(members, mask, format, common) ==
    [members |-> members, mask |-> mask, format |-> format
     , common |-> common]

EmptyJsonObject == JsonObject({}, 0, "", 0)

\* boost::lexical_cast<std::string>(RasterFormat)
FormatToString(format) ==
    CASE format = "jpg" -> "jpg"
      [] format = "png" -> "png"

\* boost::lexical_cast<RasterFormat>(std::string): bad_lexical_cast for a
\* string that names no format
StringToFormat(s) ==
    CASE s = "jpg" -> [ok |-> TRUE, format |-> "jpg"]
      [] s = "png" -> [ok |-> TRUE, format |-> "png"]
      [] OTHER -> [ok |-> FALSE, format |-> "jpg"]

\* TmsCommon::build and TmsCommon::parse: the part of the definition
\* TmsCommon holds goes into the document and comes back from it
TmsCommon_build(value, def) ==
    [value EXCEPT !.members = @ \cup {"common"}, !.common = def.common]

TmsCommon_parse(def, value) ==
    IF "common" \in value.members
    THEN [def EXCEPT !.common = value.common]
    ELSE def

\* buildDefinition that writes the mask member of a definition without mask
buildDefinition_alwaysMask(value, def) ==
    LET masked == [value EXCEPT !.members = @ \cup {"mask"}
                                , !.mask = def.mask.value]
    IN  [masked EXCEPT !.members = @ \cup {"format"}
                       , !.format = FormatToString(def.format)]

\* buildDefinition
buildDefinition(value, def) ==
    LET masked == IF def.mask.set
                  THEN [value EXCEPT !.members = @ \cup {"mask"}
                                     , !.mask = def.mask.value]
                  ELSE value
    IN  [masked EXCEPT !.members = @ \cup {"format"}
                       , !.format = FormatToString(def.format)]

\* parseDefinition
parseDefinition(def, value) ==
    LET masked == IF "mask" \in value.members
                  THEN [def EXCEPT !.mask = Some(value.mask)]
                  ELSE def
    IN  IF "format" \in value.members
        THEN IF StringToFormat(value.format).ok
             THEN [ok |-> TRUE
                   , def |-> [masked EXCEPT
                                !.format = StringToFormat(value.format).format]]
             ELSE [ok |-> FALSE, def |-> masked]
        ELSE [ok |-> TRUE, def |-> masked]

\* TmsRasterSynthetic::build
TmsRasterSynthetic_build(def) ==
    buildDefinition(TmsCommon_build(EmptyJsonObject, def), def)

\* TmsRasterSynthetic::parse
TmsRasterSynthetic_parse(def, value) ==
    parseDefinition(TmsCommon_parse(def, value), value)

(***************************************************************************)
(* The worker: one request slot                                             *)
(***************************************************************************)

NoRequest ==
    [operation |-> "none", dataset |-> NoPath, mask |-> NoPath
     , size |-> [width |-> 1, height |-> 1]
     , cm |-> {}, mm |-> {}, unopenable |-> {}]

WorkerIdle ==
    /\ cache = {}
    /\ mb = <<>>
    /\ trace = <<>>
    /\ result = Thrown("none", "")
    /\ wreq = NoRequest
    /\ wstage = "idle"

NoDefinition ==
    [version |-> 0, format |-> "geodataJson", formatConfig |-> FALSE
     , styleUrl |-> ""]

NoFiles ==
    /\ geodata = NoDataFile
    /\ metadataJson = NoJsonFile
    /\ tilesetIndex = NoIndexFile
    /\ deliveryIndex = NoIndexFile
    /\ deliveryTmp = NoIndexFile

NoFileRequest ==
    /\ rstage = "idle"
    /\ rfile = NoTask
    /\ task = NoTask
    /\ sink = <<>>
    /\ dispatched = <<>>
    /\ aborted = FALSE

NoGenerator ==
    /\ gstate = "none"
    /\ enforced = FALSE
    /\ metadata_ = NoMetadata
    /\ index_ = NoIndex
    /\ lastPrep = "never"
    /\ NoFiles
    /\ NoFileRequest

NoClassification ==
    /\ defOld = [mask |-> None, format |-> "jpg"
                 , common |-> [unsafe |-> 1, safe |-> 1]]
    /\ defNew = defOld
    /\ changedFwd = "none"
    /\ changedRev = "none"

Workers == 1..NumWorkers
NoWorker == 0
Requests == 1..NumRequests
NoPoolRequest == 0
CacheKeys == Paths \X {"dataset", "mask"}

NoResponse == Thrown("none", "")

\* a request no requester has issued yet
NewRequest ==
    [stage |-> "new", item |-> "none", worker |-> NoWorker, done |-> FALSE
     , response |-> NoResponse, received |-> NoResponse, consumes |-> 0]

\* a worker process right after its start
FreeWorker ==
    [req |-> NoPoolRequest, cache |-> {}, opens |-> [k \in CacheKeys |-> 0]]

NoPool ==
    /\ workers = [w \in Workers |-> FreeWorker]
    /\ requests = [r \in Requests |-> NewRequest]
    /\ arena = [r \in Requests |-> <<>>]

NoArgs == [verbose |-> FALSE, returncode |-> 0, stderr |-> "", lines |-> <<>>]

\* get_ranges has not run
NotRun ==
    [ran |-> FALSE, raised |-> "none", value |-> "", tiling |-> <<>>
     , srange |-> <<>>, tileranges |-> <<>>]

NoScript ==
    /\ sargs = NoArgs
    /\ srun = NotRun

NoRoundTrip ==
    /\ original = 0
    /\ document = 0
    /\ reparsed = 0
    /\ rtStage = "none"

InitWarp ==
    /\ WorkerIdle
    /\ NoClassification
    /\ gkind = "mesh"
    /\ definition_ = NoDefinition
    /\ NoGenerator
    /\ NoPool
    /\ NoScript
    /\ NoRoundTrip

\* GdalWarper::warp, coordinator side: a raster request is written into the
\* worker's request slot.
Submit ==
    /\ wstage = "idle"
    /\ \E op \in Operations \cup {UnknownOperation}, dataset \in Paths
          , mask \in Paths \cup {NoPath}, size \in Sizes :
            wreq' = [operation |-> op, dataset |-> dataset, mask |-> mask
                     , size |-> size, cm |-> {}, mm |-> {}
                     , unopenable |-> {}]
    /\ wstage' = "submitted"
    /\ UNCHANGED <<cache, mb, trace, result>>
    /\ UNCHANGED <<genVars, defVars, poolVars, scriptVars, rtVars>>

\* The worker runs warp() on the request in its slot.  What the datasets
\* hold under the request's geometry is the worker's input: cm and mm are
\* the validity masks the two warps yield, unopenable the dataset (at most
\* one) that cannot be opened at this moment.
Process ==
    /\ wstage = "submitted"
    /\ \E broken \in Paths \cup {NoPath} :
       \E cm \in (IF wreq.operation \in {"image", "mask"}
                  THEN SUBSET Pixels ELSE {{}})
          , mm \in (IF wreq.operation \in {"image", "mask"}
                       /\ wreq.mask # NoPath
                    THEN SUBSET Pixels ELSE {{}}) :
            LET req == [wreq EXCEPT !.cm = cm, !.mm = mm
                                    , !.unopenable = {broken} \ {NoPath}]
                out == warp(cache, mb, req)
            IN  /\ wreq' = req
                /\ cache' = out.cache
                /\ mb' = out.mb
                /\ trace' = out.trace
                /\ result' = out.result
    /\ wstage' = IF result'.status = "terminated" THEN "terminated"
                 ELSE "done"
    /\ UNCHANGED <<genVars, defVars, poolVars, scriptVars, rtVars>>

\* The requester takes the result or the error; once it is done with a
\* result the block goes back to the arena and the slot is free again.
Consume ==
    /\ wstage = "done"
    /\ mb' = <<>>
    /\ trace' = <<>>
    /\ result' = Thrown("none", "")
    /\ wreq' = NoRequest
    /\ wstage' = "idle"
    /\ UNCHANGED cache
    /\ UNCHANGED <<genVars, defVars, poolVars, scriptVars, rtVars>>

NextWarp ==
    \/ Submit
    \/ Process
    \/ Consume

SpecWarp == InitWarp /\ [][NextWarp]_vars

(***************************************************************************)
(* The generator of one resource: lifecycle and file requests               *)
(***************************************************************************)

fileVars == <<geodata, metadataJson, tilesetIndex, deliveryIndex
              , deliveryTmp>>
requestVars == <<rstage, rfile, task, sink, dispatched, aborted>>

InitGen ==
    /\ WorkerIdle
    /\ NoClassification
    /\ gkind \in {"mesh", "tiled"}
    /\ definition_ \in [version : {1}, format : VectorFormats
                        , formatConfig : BOOLEAN, styleUrl : StyleUrls]
    /\ NoGenerator
    /\ NoPool
    /\ NoScript
    /\ NoRoundTrip

\* the generator's constructor, as run for the resource's kind
Ctor(changeEnforced, demOpens) ==
    IF gkind = "mesh"
    THEN GeodataMesh_ctor(changeEnforced, metadataJson, geodata)
    ELSE GeodataSemanticTiled_ctor(changeEnforced, demOpens)

\* The resource is referenced (at start, or again after a restart): its
\* generator is constructed.
Construct ==
    /\ gstate = "none"
    /\ \E demOpens \in BOOLEAN :
        LET g == Ctor(enforced, demOpens)
        IN  /\ gstate' = IF ~g.constructed THEN "none"
                         ELSE IF g.ready THEN "ready" ELSE "unprepared"
            /\ metadata_' = g.metadata_
    /\ index_' = NoIndex
    /\ UNCHANGED <<gkind, enforced, definition_, lastPrep>>
    /\ UNCHANGED <<fileVars, requestVars, warpVars, defVars, poolVars
                   , scriptVars, rtVars>>

\* First use of a generator that is not ready: its preparation is started.
StartPrepare ==
    /\ gstate = "unprepared"
    /\ rstage = "idle"
    /\ gstate' = "preparing"
    /\ UNCHANGED <<gkind, enforced, definition_, metadata_, index_, lastPrep>>
    /\ UNCHANGED <<fileVars, requestVars, warpVars, defVars, poolVars
                   , scriptVars, rtVars>>

PrepareInputs ==
    IF gkind = "mesh"
    THEN [meshLoads : BOOLEAN, size : FileSizes, save : SaveOutcomes]
    ELSE [failAt : {"none", "open", "tiling", "save", "write", "rename"}
          , tiles : SUBSET Tiles]

prepare_impl(in) ==
    IF gkind = "mesh"
    THEN GeodataMesh_prepare_impl
             (definition_, metadata_, index_, geodata, metadataJson
              , tilesetIndex, deliveryIndex, deliveryTmp, in)
    ELSE GeodataSemanticTiled_prepare_impl
             (definition_, metadata_, index_, geodata, metadataJson
              , tilesetIndex, deliveryIndex, deliveryTmp, in)

\* Generator::prepare: prepare_impl runs; the generator is made ready when
\* it returns and is in error when it throws.
Prepare ==
    /\ gstate = "preparing"
    /\ \E in \in PrepareInputs :
        LET out == prepare_impl(in)
        IN  /\ gstate' = IF out.ok THEN "ready" ELSE "error"
            /\ enforced' = IF out.ok THEN FALSE ELSE enforced
            /\ lastPrep' = IF out.ok THEN "ok" ELSE "failed"
            /\ metadata_' = out.metadata_
            /\ index_' = out.index_
            /\ geodata' = out.geodata
            /\ metadataJson' = out.metadataJson
            /\ tilesetIndex' = out.tilesetIndex
            /\ deliveryIndex' = out.deliveryIndex
            /\ deliveryTmp' = out.deliveryTmp
    /\ UNCHANGED <<gkind, definition_>>
    /\ UNCHANGED <<requestVars, warpVars, defVars, poolVars
                   , scriptVars, rtVars>>

\* A new definition classified changed-safely: what is served from memory
\* is updated, the generator and its artifacts stay.
UpdateSafely ==
    /\ gstate # "none"
    /\ rstage = "idle"
    /\ \E url \in StyleUrls \ {definition_.styleUrl} :
        definition_' = [definition_ EXCEPT !.styleUrl = url]
    /\ UNCHANGED <<gkind, gstate, enforced, metadata_, index_, lastPrep>>
    /\ UNCHANGED <<fileVars, requestVars, warpVars, defVars, poolVars
                   , scriptVars, rtVars>>

\* A new definition classified changed-unsafe: the change is enforced; the
\* generator is replaced by one constructed for the new definition, which
\* is then prepared.
UpdateUnsafe ==
    /\ gstate # "none"
    /\ rstage = "idle"
    /\ definition_.version < MaxDefs
    /\ \E format \in VectorFormats, formatConfig \in BOOLEAN :
        definition_' = [definition_ EXCEPT !.version = @ + 1
                                           , !.format = format
                                           , !.formatConfig = formatConfig]
    /\ enforced' = TRUE
    /\ LET g == Ctor(TRUE, TRUE)
       IN  /\ gstate' = IF g.ready THEN "ready" ELSE "preparing"
           /\ metadata_' = g.metadata_
    /\ index_' = NoIndex
    /\ UNCHANGED <<gkind, lastPrep>>
    /\ UNCHANGED <<fileVars, requestVars, warpVars, defVars, poolVars
                   , scriptVars, rtVars>>

\* The process stops; the files stay.
Shutdown ==
    /\ gstate # "none"
    /\ rstage = "idle"
    /\ gstate' = "none"
    /\ metadata_' = NoMetadata
    /\ index_' = NoIndex
    /\ UNCHANGED <<gkind, enforced, definition_, lastPrep>>
    /\ UNCHANGED <<fileVars, requestVars, warpVars, defVars, poolVars
                   , scriptVars, rtVars>>

generateFile_impl(fi) ==
    IF gkind = "mesh"
    THEN GeodataMesh_generateFile_impl(definition_, fi)
    ELSE GeodataSemanticTiled_generateFile_impl(definition_, fi)

\* Generator::generateFile: a generator that is not ready refuses the
\* request; a ready one routes it through generateFile_impl.
GenerateFile ==
    /\ gstate # "none"
    /\ rstage = "idle"
    /\ \E type \in FileTypes :
       \E tileId \in (IF gkind = "tiled" /\ type \in {"geo", "metatile"}
                      THEN Tiles ELSE {NoTile}) :
        LET fi == [type |-> type, tileId |-> tileId]
            routed == generateFile_impl(fi)
        IN  /\ rfile' = fi
            /\ IF gstate # "ready"
               THEN /\ sink' = <<SinkError("Unavailable"
                                           , "Generator not ready.")>>
                    /\ task' = NoTask
                    /\ rstage' = "answered"
               ELSE /\ sink' = routed.sink
                    /\ task' = routed.task
                    /\ rstage' = IF routed.task = NoTask
                                 THEN "answered" ELSE "task"
    /\ UNCHANGED <<dispatched, aborted>>
    /\ UNCHANGED <<gkind, gstate, enforced, definition_, metadata_, index_
                   , lastPrep>>
    /\ UNCHANGED <<fileVars, warpVars, defVars, poolVars, scriptVars, rtVars>>

runTask(isAborted, metatileOK) ==
    CASE gkind = "mesh" -> GeodataMesh_generateGeodata(geodata, task)
      [] gkind = "tiled" /\ task.type = "geo" ->
            GeodataSemanticTiled_generateGeodata(index_, task, isAborted)
      [] gkind = "tiled" /\ task.type = "metatile" ->
            GeodataSemanticTiled_generateMetatile
                (index_, task, isAborted, metatileOK)

\* The Arsenal runs the Task a file request was routed to.
RunTask ==
    /\ rstage = "task"
    /\ \E isAborted \in BOOLEAN, metatileOK \in BOOLEAN :
        LET ran == runTask(isAborted, metatileOK)
        IN  /\ sink' = sink \o ran.sink
            /\ dispatched' = ran.dispatched
            /\ aborted' = isAborted
    /\ rstage' = "answered"
    /\ UNCHANGED <<rfile, task>>
    /\ UNCHANGED <<gkind, gstate, enforced, definition_, metadata_, index_
                   , lastPrep>>
    /\ UNCHANGED <<fileVars, warpVars, defVars, poolVars, scriptVars, rtVars>>

\* The request is over.
Finish ==
    /\ rstage = "answered"
    /\ rstage' = "idle"
    /\ rfile' = NoTask
    /\ task' = NoTask
    /\ sink' = <<>>
    /\ dispatched' = <<>>
    /\ aborted' = FALSE
    /\ UNCHANGED <<gkind, gstate, enforced, definition_, metadata_, index_
                   , lastPrep>>
    /\ UNCHANGED <<fileVars, warpVars, defVars, poolVars, scriptVars, rtVars>>

NextGen ==
    \/ Construct
    \/ StartPrepare
    \/ Prepare
    \/ UpdateSafely
    \/ UpdateUnsafe
    \/ Shutdown
    \/ GenerateFile
    \/ RunTask
    \/ Finish

SpecGen == InitGen /\ [][NextGen]_vars

(***************************************************************************)
(* The mesh generator constructed over what its root directory holds        *)
(***************************************************************************)

\* the Metadata of a preparation: the mesh of a version, a geodata size
PreparedMetadatas ==
    {[extents |-> MeshExtents(v), fileSize |-> n
      , position |-> MeshPosition(v)] : v \in 1..MaxDefs
                                        , n \in 0..MaxFileSize}

\* metadata.json: none, one that does not hold a whole document, or the
\* document of a preparation
JsonFiles ==
    {NoJsonFile, [exists |-> TRUE, complete |-> FALSE, content |-> NoJson]}
    \cup {[exists |-> TRUE, complete |-> TRUE, content |-> build(m)] :
            m \in PreparedMetadatas}

\* geodata: none, or the artifact of a version, of some size
DataFiles ==
    {NoDataFile}
    \cup [exists : {TRUE}, data : 1..MaxDefs, size : 0..MaxFileSize]

InitRestart ==
    /\ WorkerIdle
    /\ NoClassification
    /\ NoPool
    /\ NoScript
    /\ NoRoundTrip
    /\ gkind = "mesh"
    /\ definition_ = [NoDefinition EXCEPT !.version = 1]
    /\ gstate = "none"
    /\ enforced \in BOOLEAN
    /\ metadata_ = NoMetadata
    /\ index_ = NoIndex
    /\ lastPrep = "never"
    /\ geodata \in DataFiles
    /\ metadataJson \in JsonFiles
    /\ tilesetIndex = NoIndexFile
    /\ deliveryIndex = NoIndexFile
    /\ deliveryTmp = NoIndexFile
    /\ NoFileRequest

NextRestart ==
    \/ Construct

SpecRestart == InitRestart /\ [][NextRestart]_vars

(***************************************************************************)
(* Change classification of a pair of definitions                           *)
(***************************************************************************)

InitDef ==
    /\ WorkerIdle
    /\ gkind = "mesh"
    /\ definition_ = NoDefinition
    /\ NoGenerator
    /\ NoPool
    /\ NoScript
    /\ NoRoundTrip
    /\ defOld \in TmsRasterSynthetics
    /\ defNew \in TmsRasterSynthetics
    /\ changedFwd = "none"
    /\ changedRev = "none"

\* Resource::changed: the new definition against the old one, and the old
\* one against the new one
Classify ==
    /\ changedFwd = "none"
    /\ changedFwd' = TmsRasterSynthetic_changed_impl(defNew, defOld)
    /\ changedRev' = TmsRasterSynthetic_changed_impl(defOld, defNew)
    /\ UNCHANGED <<defOld, defNew, warpVars, genVars, poolVars
                   , scriptVars, rtVars>>

NextDef ==
    \/ Classify

SpecDef == InitDef /\ [][NextDef]_vars

(***************************************************************************)
(* Coordinator: the warper's pool of worker processes                       *)
(***************************************************************************)

\* what a requester asks of the warper: a raster request, or the custom
\* request of the tiled generator
PoolItems ==
    {"imageEmpty", "imageMasked", "detailMask", "detailMaskNoMask", "custom"}

RasterRequest(item) ==
    CASE item = "imageEmpty" ->
            [NoRequest EXCEPT !.operation = "image", !.dataset = 1]
      [] item = "imageMasked" ->
            [NoRequest EXCEPT !.operation = "image", !.dataset = 1
                              , !.mask = 1, !.cm = Pixels, !.mm = Pixels]
      [] item = "detailMask" ->
            [NoRequest EXCEPT !.operation = "detailMask", !.dataset = 1
                              , !.mask = 1]
      [] item = "detailMaskNoMask" ->
            [NoRequest EXCEPT !.operation = "detailMask", !.dataset = 1]

\* SemanticRequest::process: logs; the mutex and the cache are not used
SemanticRequest_process(c, m) == Out(c, m, <<>>, Ok(0))

\* SemanticRequest::consume: logs; the lock and the error are not used, and
\* nothing is handed to the requester
SemanticRequest_consume(received, err) == received

\* what a worker does with the request it was handed
process(c, m, item) ==
    IF item = "custom"
    THEN SemanticRequest_process(c, m)
    ELSE warp(c, m, RasterRequest(item))

\* the number of times a run opened the dataset kept under a key
OpensOf(t, k) ==
    Cardinality({i \in 2..Len(t) :
                    /\ t[i].ev = "open"
                    /\ t[i].arg = k[1]
                    /\ t[i - 1].ev = "resolve:" \o k[2]})

InitPool ==
    /\ WorkerIdle
    /\ NoClassification
    /\ gkind = "mesh"
    /\ definition_ = NoDefinition
    /\ NoGenerator
    /\ NoPool
    /\ NoScript
    /\ NoRoundTrip

\* GdalWarper::warp / GdalWarper::custom: a requester hands a request to
\* the warper and waits for it.
Request(r) ==
    /\ requests[r].stage = "new"
    /\ \A q \in Requests : q < r => requests[q].stage # "new"
    /\ \E item \in PoolItems :
        requests' = [requests EXCEPT ![r].stage = "waiting"
                                     , ![r].item = item]
    /\ UNCHANGED <<workers, arena>>
    /\ UNCHANGED <<warpVars, genVars, defVars, scriptVars, rtVars>>

\* Accept without the test for a free slot
Accept_busyWorker(w, r) ==
    /\ requests[r].stage = "waiting"
    /\ requests[r].worker = NoWorker
    /\ workers' = [workers EXCEPT ![w].req = r]
    /\ requests' = [requests EXCEPT ![r].worker = w]
    /\ UNCHANGED arena
    /\ UNCHANGED <<warpVars, genVars, defVars, scriptVars, rtVars>>

\* A waiting request is written into the slot of a worker that has none.
Accept(w, r) ==
    /\ workers[w].req = NoPoolRequest
    /\ requests[r].stage = "waiting"
    /\ requests[r].worker = NoWorker
    /\ workers' = [workers EXCEPT ![w].req = r]
    /\ requests' = [requests EXCEPT ![r].worker = w]
    /\ UNCHANGED arena
    /\ UNCHANGED <<warpVars, genVars, defVars, scriptVars, rtVars>>

\* The worker processes the request in its slot, leaves the result (or the
\* error) and whatever it allocated with the request, signals completion
\* and has a free slot again.
Work(w) ==
    /\ workers[w].req # NoPoolRequest
    /\ LET r == workers[w].req
           out == process(workers[w].cache, <<>>, requests[r].item)
       IN  /\ workers' =
                [workers EXCEPT
                    ![w] = [req |-> NoPoolRequest
                            , cache |-> out.cache
                            , opens |-> [k \in CacheKeys |->
                                            workers[w].opens[k]
                                            + OpensOf(out.trace, k)]]]
           /\ requests' = [requests EXCEPT ![r].done = TRUE
                                           , ![r].response = out.result]
           /\ arena' = [arena EXCEPT ![r] = out.mb]
    /\ UNCHANGED <<warpVars, genVars, defVars, scriptVars, rtVars>>

\* Receive without waiting for the completion signal
Receive_beforeCompletion(r) ==
    /\ requests[r].stage = "waiting"
    /\ requests[r].worker # NoWorker
    /\ requests' =
        [requests EXCEPT
            ![r].stage = "consumed"
            , ![r].received =
                IF requests[r].item = "custom"
                THEN SemanticRequest_consume(@, requests[r].response)
                ELSE requests[r].response
            , ![r].consumes = IF requests[r].item = "custom"
                              THEN @ + 1 ELSE @]
    /\ arena' = [arena EXCEPT ![r] = <<>>]
    /\ UNCHANGED workers
    /\ UNCHANGED <<warpVars, genVars, defVars, scriptVars, rtVars>>

\* The waiting requester is woken by the completion signal: it takes the
\* result or the error (a custom request's consume is called), and the
\* request's block goes back to the arena.
Receive(r) ==
    /\ requests[r].stage = "waiting"
    /\ requests[r].done
    /\ requests' =
        [requests EXCEPT
            ![r].stage = "consumed"
            , ![r].received =
                IF requests[r].item = "custom"
                THEN SemanticRequest_consume(@, requests[r].response)
                ELSE requests[r].response
            , ![r].consumes = IF requests[r].item = "custom"
                              THEN @ + 1 ELSE @]
    /\ arena' = [arena EXCEPT ![r] = <<>>]
    /\ UNCHANGED workers
    /\ UNCHANGED <<warpVars, genVars, defVars, scriptVars, rtVars>>

\* The requester's Sink is aborted: the requester stops waiting, whether or
\* not a worker has the request.
Abort(r) ==
    /\ requests[r].stage = "waiting"
    /\ requests' = [requests EXCEPT ![r].stage = "cancelled"]
    /\ UNCHANGED <<workers, arena>>
    /\ UNCHANGED <<warpVars, genVars, defVars, scriptVars, rtVars>>

\* Discard that leaves the block where it is
Discard_keepsBlock(r) ==
    /\ requests[r].stage = "cancelled"
    /\ requests[r].done
    /\ arena[r] # <<>>
    /\ UNCHANGED <<workers, requests, arena>>
    /\ UNCHANGED <<warpVars, genVars, defVars, scriptVars, rtVars>>

\* What a worker left for a request nobody waits for is released.
Discard(r) ==
    /\ requests[r].stage = "cancelled"
    /\ requests[r].done
    /\ arena[r] # <<>>
    /\ arena' = [arena EXCEPT ![r] = <<>>]
    /\ UNCHANGED <<workers, requests>>
    /\ UNCHANGED <<warpVars, genVars, defVars, scriptVars, rtVars>>

NextPool ==
    \/ \E r \in Requests : Request(r)
    \/ \E w \in Workers, r \in Requests : Accept(w, r)
    \/ \E w \in Workers : Work(w)
    \/ \E r \in Requests : Receive(r)
    \/ \E r \in Requests : Abort(r)
    \/ \E r \in Requests : Discard(r)

SpecPool == InitPool /\ [][NextPool]_vars

\* every worker process runs on its own, and the coordinator gets to clean
\* up after a cancelled request
SpecPoolFair ==
    /\ SpecPool
    /\ \A w \in Workers : WF_vars(Work(w))
    /\ \A r \in Requests : WF_vars(Discard(r))

(***************************************************************************)
(* The preprocessing script: get_ranges                                     *)
(*                                                                         *)
(* A line of the range estimation tool's output is `range: LOD TILE`,       *)
(* `range<srs>: LOD TILE` or anything else; the LOD and TILE fields of a    *)
(* line are told apart from those of other lines by the line's id.          *)
(***************************************************************************)

ReturnCodes == 0..MaxReturnCode
StderrTexts == {"", "error text"}
LineKinds == {"range", "rangeSrs", "other"}
CaliperLines == [kind : LineKinds, id : 1..NumRanges]
RECURSIVE SeqsUpTo(_, _)
SeqsUpTo(S, n) ==
    IF n = 0 THEN {<<>>}
    ELSE LET shorter == SeqsUpTo(S, n - 1)
         IN  shorter \cup {Append(q, x) : q \in shorter, x \in S}
CaliperOutputs == SeqsUpTo(CaliperLines, MaxLines)

\* no line has matched yet: lod is not bound
Unbound == 0

\* the loop over caliper.stdout.readlines(): tileranges collects the
\* range<srs> lines, srange is the last range line, and lod is left bound to
\* the LOD field of the last line that matched either pattern
RECURSIVE ReadLines(_)
ReadLines(lines) ==
    IF lines = <<>>
    THEN [tileranges |-> <<>>, srange |-> <<>>, lod |-> Unbound]
    ELSE LET before == ReadLines(SubSeq(lines, 1, Len(lines) - 1))
             line == lines[Len(lines)]
         IN  CASE line.kind = "rangeSrs" ->
                    [before EXCEPT !.tileranges = Append(@, line.id)
                                   , !.lod = line.id]
               [] line.kind = "range" ->
                    [before EXCEPT !.srange = <<line.id, line.id>>
                                   , !.lod = line.id]
               [] OTHER -> before

Raised(kind, value) ==
    [ran |-> TRUE, raised |-> kind, value |-> value, tiling |-> <<>>
     , srange |-> <<>>, tileranges |-> <<>>]

\* get_ranges(dirname, input_file, reference_frame, verbose), given what
\* mapproxy-calipers does: its exit status, what it writes to stderr and
\* the lines it writes to stdout
get_ranges(args) ==
    IF args.verbose
    THEN \* stderr is not a pipe: caliper.stderr is None
         Raised("AttributeError", "")
    ELSE
    LET read == ReadLines(args.lines)
    IN
    IF args.returncode = 1
    THEN \* caliper.stderr is a file object, which is true
         Raised("Exception", args.stderr)
    ELSE
    IF read.srange = <<>>
    THEN Raised("IndexError", "")
    ELSE [ran |-> TRUE, raised |-> "none", value |-> ""
          , tiling |-> <<[lodRange |-> read.lod
                          , tileRange |-> read.tileranges]>>
          , srange |-> read.srange, tileranges |-> read.tileranges]

InitScript ==
    /\ WorkerIdle
    /\ NoClassification
    /\ gkind = "mesh"
    /\ definition_ = NoDefinition
    /\ NoGenerator
    /\ NoPool
    /\ NoRoundTrip
    /\ sargs \in [verbose : BOOLEAN, returncode : ReturnCodes
                  , stderr : StderrTexts, lines : CaliperOutputs]
    /\ srun = NotRun

\* main: get_ranges is called
GetRanges ==
    /\ ~srun.ran
    /\ srun' = get_ranges(sargs)
    /\ UNCHANGED sargs
    /\ UNCHANGED <<warpVars, genVars, defVars, poolVars, rtVars>>

NextScript ==
    \/ GetRanges

SpecScript == InitScript /\ [][NextScript]_vars

(***************************************************************************)
(* The preprocessing script: a whole run                                    *)
(*                                                                         *)
(* The output directory is there or not, and when it is there it holds the *)
(* virtual datasets or not.  Every start of an external program is         *)
(* recorded with the state of the output directory it finds.               *)
(***************************************************************************)

Dir(exists, vrt) == [exists |-> exists, vrt |-> vrt]
NoDir == Dir(FALSE, FALSE)

\* the output directories a run starts with: none, or the one an earlier
\* run has left
OutputDirs == {NoDir, Dir(TRUE, TRUE)}

\* subprocess.run / subprocess.Popen of an external program
Run(tool, help, dir) == [tool |-> tool, help |-> help, dir |-> dir]

\* _parse_args, after parser.parse_args()
parse_args(args) ==
    IF args.dir.exists
    THEN IF args.o THEN [raised |-> "none", dir |-> NoDir]
         ELSE IF args.u THEN [raised |-> "none", dir |-> args.dir]
         ELSE [raised |-> "Exception", dir |-> args.dir]
    ELSE [raised |-> "none", dir |-> args.dir]

\* _check_scripts: each program is started with --help
check_scripts(args, dir) ==
    IF args.toolsFound
    THEN [ok |-> TRUE
          , tools |-> <<Run("generatevrtwo", TRUE, dir)
                        , Run("mapproxy-tiling", TRUE, dir)
                        , Run("mapproxy-calipers", TRUE, dir)>>]
    ELSE [ok |-> FALSE, tools |-> <<>>]

\* make_vrt: os.mkdir, then generatevrtwo for the dataset, its minimum and
\* its maximum, each followed by its symlink
make_vrt(dir) ==
    IF dir.exists
    THEN [raised |-> "FileExistsError", dir |-> dir, tools |-> <<>>]
    ELSE [raised |-> "none", dir |-> Dir(TRUE, TRUE)
          , tools |-> <<Run("generatevrtwo", FALSE, Dir(TRUE, FALSE))
                        , Run("generatevrtwo", FALSE, Dir(TRUE, FALSE))
                        , Run("generatevrtwo", FALSE, Dir(TRUE, FALSE))>>]

Ended(kind, value, dir, tools) ==
    [ran |-> TRUE, raised |-> kind, value |-> value, tiling |-> <<>>
     , srange |-> <<>>, tileranges |-> <<>>, dir |-> dir, tools |-> tools]

\* __main__
main(args) ==
    LET parsed == parse_args(args)
    IN
    IF parsed.raised # "none"
    THEN Ended(parsed.raised, "", parsed.dir, <<>>)
    ELSE
    LET checked == check_scripts(args, parsed.dir)
    IN
    IF ~checked.ok THEN Ended("SystemExit", "1", parsed.dir, checked.tools)
    ELSE
    LET made == IF ~args.u THEN make_vrt(parsed.dir)
                ELSE [raised |-> "none", dir |-> parsed.dir, tools |-> <<>>]
    IN
    IF made.raised # "none"
    THEN Ended(made.raised, "", made.dir, checked.tools \o made.tools)
    ELSE
    LET ranges == get_ranges(args)
        tools == checked.tools \o made.tools
                 \o <<Run("mapproxy-calipers", FALSE, made.dir)>>
                 \o (IF ranges.tiling # <<>>
                     THEN <<Run("mapproxy-tiling", FALSE, made.dir)>>
                     ELSE <<>>)
    IN  [ran |-> TRUE, raised |-> ranges.raised, value |-> ranges.value
         , tiling |-> ranges.tiling, srange |-> ranges.srange
         , tileranges |-> ranges.tileranges, dir |-> made.dir
         , tools |-> tools]

InitMain ==
    /\ WorkerIdle
    /\ NoClassification
    /\ gkind = "mesh"
    /\ definition_ = NoDefinition
    /\ NoGenerator
    /\ NoPool
    /\ NoRoundTrip
    /\ sargs \in [o : BOOLEAN, u : BOOLEAN, dir : OutputDirs
                  , toolsFound : BOOLEAN, verbose : BOOLEAN
                  , returncode : ReturnCodes, stderr : StderrTexts
                  , lines : CaliperOutputs]
    /\ srun = NotRun

\* the script is run
Main ==
    /\ ~srun.ran
    /\ srun' = main(sargs)
    /\ UNCHANGED sargs
    /\ UNCHANGED <<warpVars, genVars, defVars, poolVars, rtVars>>

NextMain ==
    \/ Main

SpecMain == InitMain /\ [][NextMain]_vars

(***************************************************************************)
(* Metadata of the mesh generator, built into JSON and parsed back          *)
(***************************************************************************)

Coords == 0..MaxCoord
Points3 == {<<x, y, z>> : x \in Coords, y \in Coords, z \in Coords}
Positions ==
    {Position(t, h, p) : t \in {"objective", "subjective"}
                         , h \in {"fixed", "floating"}, p \in Coords}

\* the values of GeodataMesh::Metadata
Metadatas ==
    {[extents |-> Extents3(ll, ur), fileSize |-> n, position |-> p] :
        ll \in Points3, ur \in Points3, n \in 0..MaxFileSize
        , p \in Positions}

InitMetadata ==
    /\ WorkerIdle
    /\ NoClassification
    /\ gkind = "mesh"
    /\ definition_ = NoDefinition
    /\ NoGenerator
    /\ NoPool
    /\ NoScript
    /\ original \in Metadatas
    /\ document = NoJson
    /\ reparsed = [ok |-> FALSE, metadata |-> NoMetadata]
    /\ rtStage = "new"

\* saveMetadata: build(content, metadata)
BuildMetadata ==
    /\ rtStage = "new"
    /\ document' = build(original)
    /\ rtStage' = "built"
    /\ UNCHANGED <<original, reparsed>>
    /\ UNCHANGED <<warpVars, genVars, defVars, poolVars, scriptVars>>

\* loadMetadata: parse(metadata, content) into a new Metadata
ParseMetadata ==
    /\ rtStage = "built"
    /\ reparsed' = parse(document)
    /\ rtStage' = "parsed"
    /\ UNCHANGED <<original, document>>
    /\ UNCHANGED <<warpVars, genVars, defVars, poolVars, scriptVars>>

NextMetadata ==
    \/ BuildMetadata
    \/ ParseMetadata

SpecMetadata == InitMetadata /\ [][NextMetadata]_vars

(***************************************************************************)
(* A TmsRasterSynthetic definition, built into JSON and parsed back         *)
(***************************************************************************)

\* the definitions serialized; the mask 0 is the empty string
SerializedDefinitions ==
    [mask : Masks \cup {Some(0)}, format : RasterFormats
     , common : TmsCommons]

InitSerialize ==
    /\ WorkerIdle
    /\ NoClassification
    /\ gkind = "mesh"
    /\ definition_ = NoDefinition
    /\ NoGenerator
    /\ NoPool
    /\ NoScript
    /\ original \in SerializedDefinitions
    /\ document = EmptyJsonObject
    /\ reparsed = [ok |-> FALSE, def |-> DefaultTmsRasterSynthetic]
    /\ rtStage = "new"

\* TmsRasterSynthetic::build
BuildDefinition ==
    /\ rtStage = "new"
    /\ document' = TmsRasterSynthetic_build(original)
    /\ rtStage' = "built"
    /\ UNCHANGED <<original, reparsed>>
    /\ UNCHANGED <<warpVars, genVars, defVars, poolVars, scriptVars>>

\* TmsRasterSynthetic::parse on a definition just constructed
ParseDefinition ==
    /\ rtStage = "built"
    /\ reparsed' = TmsRasterSynthetic_parse(DefaultTmsRasterSynthetic
                                            , document)
    /\ rtStage' = "parsed"
    /\ UNCHANGED <<original, document>>
    /\ UNCHANGED <<warpVars, genVars, defVars, poolVars, scriptVars>>

\* Resource::changed: the definition against the one parsed back
CompareDefinition ==
    /\ rtStage = "parsed"
    /\ reparsed.ok
    /\ changedFwd' = TmsRasterSynthetic_changed_impl(original, reparsed.def)
    /\ changedRev' = TmsRasterSynthetic_changed_impl(reparsed.def, original)
    /\ rtStage' = "compared"
    /\ UNCHANGED <<original, document, reparsed>>
    /\ UNCHANGED <<defOld, defNew>>
    /\ UNCHANGED <<warpVars, genVars, poolVars, scriptVars>>

NextSerialize ==
    \/ BuildDefinition
    \/ ParseDefinition
    \/ CompareDefinition

SpecSerialize == InitSerialize /\ [][NextSerialize]_vars

(***************************************************************************)
(* Properties of the warp operations.                                       *)
(***************************************************************************)

\* the worker has just run warp() on the request in its slot
Processed == wstage = "submitted" /\ wstage' = "done"

EventsOf(t, role) == {i \in 1..Len(t) : t[i].role = role}
EventsNamed(t, e) == {i \in 1..Len(t) : t[i].ev = e}

\* the primary dataset was resolved and warped in the finished request
PrimaryWarped == \E i \in 1..Len(trace) :
                    trace[i].ev = "warp" /\ trace[i].role = "primary"

\* the mask dataset was resolved and warped in the finished request
MaskWarped == \E i \in 1..Len(trace) :
                    trace[i].ev = "warp" /\ trace[i].role = "mask"

DetailMaskWithoutMask ==
    wreq.operation = "detailMask" /\ wreq.mask = NoPath

C2_EmptyPrimaryStopsBeforeMask ==
    (/\ wstage = "done"
     /\ wreq.operation \in {"image", "mask"}
     /\ PrimaryWarped
     /\ wreq.cm = {})
    => /\ result = NotFound("No valid data.")
       /\ EventsOf(trace, "mask") = {}
       /\ trace[Len(trace)] = Ev("warp", "primary", wreq.dataset)

C2_Witness ==
    /\ wstage = "done"
    /\ wreq.operation \in {"image", "mask"}
    /\ wreq.mask # NoPath
    /\ wreq.mask \notin wreq.unopenable
    /\ PrimaryWarped
    /\ wreq.cm = {}
    /\ wreq.mm # {}
    /\ result.status = "NotFound"

\* C3: with a mask dataset, a non-empty primary validity mask that the warped
\* mask dataset's validity mask does not meet gives not-found and no result
\* matrix; a result comes only with a validity mask that is non-empty before
\* and after the masking.
C3_NoValidDataAfterMask ==
    (/\ wstage = "done"
     /\ wreq.operation \in {"image", "mask"})
    => /\ (/\ wreq.mask # NoPath
           /\ MaskWarped
           /\ wreq.cm # {}
           /\ wreq.cm \cap wreq.mm = {})
          => /\ result = NotFound("No valid data.")
             /\ EventsNamed(trace, "alloc") = {}
             /\ mb = <<>>
       /\ result.status = "ok"
          => /\ wreq.cm # {}
             /\ wreq.mask # NoPath => wreq.cm \cap wreq.mm # {}

C3_Witness ==
    /\ wstage = "done"
    /\ wreq.operation \in {"image", "mask"}
    /\ wreq.mask # NoPath
    /\ MaskWarped
    /\ wreq.cm # {}
    /\ wreq.mm # {}
    /\ wreq.cm \cap wreq.mm = {}
    /\ result.status = "NotFound"

(***************************************************************************)
(* Properties of the generators.                                            *)
(***************************************************************************)

GeneratorStates == {"unprepared", "preparing", "ready", "error"}

NotFoundOnly(writes) ==
    /\ Len(writes) = 1
    /\ writes[1].kind = "error"
    /\ writes[1].what = "NotFound"

\* C4: a geo tile or metatile request of the tiled generator whose tile is
\* not in the tile index ends with a not-found error on the sink, and nothing
\* is dispatched to the warper for it.
C4_TileOutsideIndexNotFound ==
    (/\ gkind = "tiled"
     /\ rstage = "answered"
     /\ task.type \in {"geo", "metatile"}
     /\ ~aborted
     /\ task.tileId \notin index_.tiles)
    => /\ NotFoundOnly(sink)
       /\ dispatched = <<>>

\* C7: a mesh generator constructed again for an unchanged resource, after a
\* preparation that succeeded and with the files left as written, is ready
\* at construction.
C7_RestartAfterPreparationIsReady ==
    [][(/\ gkind = "mesh"
        /\ gstate = "none"
        /\ gstate' # "none"
        /\ ~enforced
        /\ lastPrep = "ok")
       => gstate' = "ready"]_vars

\* the step takes a definition classified changed-safely
SafeChange == definition_'.styleUrl # definition_.styleUrl

\* the step takes a definition classified changed-unsafe
UnsafeChange == definition_'.version # definition_.version

\* the extents in the metadata.json of the mesh of this version
ExtentsJson(version) ==
    build([NoMetadata EXCEPT !.extents = MeshExtents(version)]).extents

\* what the generator serves was computed from this version of the definition
ArtifactOf(version) ==
    IF gkind = "mesh"
    THEN /\ geodata.exists
         /\ geodata.data = version
         /\ metadataJson.exists
         /\ metadataJson.content.extents = ExtentsJson(version)
    ELSE /\ index_.set
         /\ index_.version = version
         /\ deliveryIndex.exists
         /\ deliveryIndex.complete
         /\ deliveryIndex.version = version

\* C6: a changed-safely definition leaves a ready generator ready, with its
\* files and tile index as they were; a changed-unsafe definition puts the
\* generator into preparing whatever its state; from then on it is ready
\* again only by a preparation, which leaves the artifact of the new
\* definition.
C6_ChangeDrivesRegeneration ==
    [][/\ (gstate = "ready" /\ SafeChange)
          => /\ gstate' = "ready"
             /\ UNCHANGED fileVars
             /\ UNCHANGED index_
       /\ UnsafeChange => gstate' = "preparing"
       /\ (enforced /\ gstate' = "ready")
          => /\ gstate = "preparing"
             /\ ~enforced'
             /\ ArtifactOf(definition_.version)']_vars

C6_Witness ==
    /\ gkind = "tiled"
    /\ gstate = "ready"
    /\ definition_.version > 1
    /\ ArtifactOf(definition_.version)
    /\ tilesetIndex.version = definition_.version

GeneratorSteps ==
    {<<"unprepared", "preparing">>, <<"preparing", "ready">>
     , <<"preparing", "error">>}

\* the persisted metadata validates against the artifact's size
MetadataValidates ==
    /\ metadataJson.exists
    /\ metadataJson.complete
    /\ geodata.exists
    /\ metadataJson.content.fileSize = geodata.size

\* C8: a generator is in one of unprepared, preparing, ready, error; it is
\* created unprepared, or ready when the resource is unchanged and the
\* persisted metadata validates; from there it goes from unprepared to
\* preparing, from preparing to ready or to error, and from any state to
\* preparing on a changed-unsafe definition; nothing else.
C8_GeneratorTransitions ==
    [][/\ gstate' \in GeneratorStates \cup {"none"}
       /\ (gstate = "none" /\ gstate' # "none")
          => \/ gstate' = "unprepared"
             \/ /\ gstate' = "ready"
                /\ ~enforced
                /\ MetadataValidates
       /\ (gstate \in GeneratorStates /\ gstate' \in GeneratorStates
           /\ gstate' # gstate)
          => \/ <<gstate, gstate'>> \in GeneratorSteps
             \/ gstate' = "preparing" /\ UnsafeChange]_vars

C8_Witness ==
    /\ gstate = "error"
    /\ definition_.version > 1
    /\ lastPrep = "failed"
    /\ enforced

\* C9: while a changed-unsafe definition is enforced the generator is not
\* ready, whatever was persisted for the previous definition, and whatever
\* content a request is answered with was computed from the definition in
\* force.
C9_NothingServedFromPreviousDefinition ==
    /\ enforced => gstate # "ready"
    /\ \A i \in 1..Len(sink) :
          (sink[i].kind = "content" /\ sink[i].what \in {"data", "metatile"})
          => /\ ~enforced
             /\ sink[i].data = definition_.version

C9_Witness ==
    /\ gkind = "mesh"
    /\ enforced
    /\ gstate = "unprepared"
    /\ MetadataValidates
    /\ geodata.data # definition_.version

\* a file request has just been routed by a ready generator
RoutedNow == rstage = "idle" /\ rstage' # "idle" /\ gstate = "ready"

Immediate == {"config", "definition", "style", "support", "registry"}

OneContent(writes) == Len(writes) = 1 /\ writes[1].kind = "content"

\* C10, as stated: config, definition, style, support and registry are
\* answered by one write and no task; geo and metatile by a task and no
\* write; any other kind by one not-found error and no task.
C10_RoutingAsStated ==
    [][RoutedNow
       => /\ rfile'.type \in Immediate
             => OneContent(sink') /\ task' = NoTask
          /\ rfile'.type \in {"geo", "metatile"}
             => sink' = <<>> /\ task' # NoTask
          /\ rfile'.type \notin Immediate \cup {"geo", "metatile"}
             => NotFoundOnly(sink') /\ task' = NoTask
          /\ (sink' = <<>>) # (task' = NoTask)]_vars

\* the kinds a generator defers to a task
Deferred == IF gkind = "tiled" THEN {"geo", "metatile"} ELSE {"geo"}

\* C10, amended: as stated, but a GeodataMesh defers geo alone: a metatile
\* request is one of its other kinds, answered by one not-found error.
C10_Routing ==
    [][RoutedNow
       => /\ rfile'.type \in Immediate
             => OneContent(sink') /\ task' = NoTask
          /\ rfile'.type \in Deferred
             => sink' = <<>> /\ task' = rfile'
          /\ rfile'.type \notin Immediate \cup Deferred
             => NotFoundOnly(sink') /\ task' = NoTask
          /\ (sink' = <<>>) # (task' = NoTask)]_vars

C10_Witness ==
    /\ gkind = "mesh"
    /\ gstate = "ready"
    /\ rstage = "answered"
    /\ rfile.type = "metatile"
    /\ NotFoundOnly(sink)
    /\ task = NoTask

(***************************************************************************)
(* Properties of the change classification.                                 *)
(***************************************************************************)

\* C5: changed-unsafe whenever the masks differ, in presence or in value,
\* whatever the formats; changed-safely when the masks are equal and the
\* formats differ; the common TMS classification when both are equal; and
\* the same either way round whenever mask or format differ.
C5_ChangeClassification ==
    changedFwd # "none"
    => /\ defNew.mask # defOld.mask => changedFwd = "yes"
       /\ (defNew.mask = defOld.mask /\ defNew.format # defOld.format)
          => changedFwd = "safely"
       /\ (defNew.mask = defOld.mask /\ defNew.format = defOld.format)
          => changedFwd = TmsCommon_changed_impl(defNew, defOld)
       /\ (defNew.mask # defOld.mask \/ defNew.format # defOld.format)
          => changedFwd = changedRev

C5_Witness ==
    /\ changedFwd = "yes"
    /\ defNew.mask.set
    /\ defOld.mask.set
    /\ defNew.format # defOld.format
    /\ defNew.common = defOld.common

(***************************************************************************)
(* Properties of the warper's pool.                                         *)
(***************************************************************************)

\* the requests a worker has been handed and has not finished
InFlight(w) ==
    {r \in Requests : requests[r].worker = w /\ ~requests[r].done}

\* C11: whatever the interleaving of the requesters, a worker has at most
\* one request in flight: the request in its slot, and none when the slot
\* is free.
C11_OneInFlightPerWorker ==
    \A w \in Workers :
        /\ Cardinality(InFlight(w)) <= 1
        /\ InFlight(w) = {workers[w].req} \ {NoPoolRequest}

\* two requests are in flight at once, on distinct workers
C11_Witness ==
    \E w1, w2 \in Workers :
        /\ w1 # w2
        /\ InFlight(w1) # {}
        /\ InFlight(w2) # {}

\* the requester of r has just taken r's outcome
Consumed(r) ==
    \/ requests'[r].received # requests[r].received
    \/ requests'[r].consumes # requests[r].consumes
    \/ requests[r].stage # "consumed" /\ requests'[r].stage = "consumed"

\* C12: the outcome of a request is consumed (the result read, or the custom
\* request's consume called) only once the worker has finished process for
\* that request and signalled completion, and at most once.
C12_ConsumeAfterCompletion ==
    [][\A r \in Requests :
        /\ Consumed(r) =>
            /\ requests[r].done
            /\ requests[r].worker # NoWorker
            /\ workers[requests[r].worker].req # r
            /\ requests[r].stage = "waiting"
        /\ requests'[r].consumes <= 1]_vars

\* a custom request's consume has been called, and a raster result read
C12_Witness ==
    \E r1, r2 \in Requests :
        /\ requests[r1].item = "custom"
        /\ requests[r1].consumes = 1
        /\ requests[r2].received.status = "ok"
        /\ requests[r2].received.mat > 0

\* C13: once the requester of a request has stopped waiting because its
\* Sink was aborted, nothing is handed to it any more (no result, no call of
\* consume), whatever the worker does with the request later; stopping does
\* not wait for the worker; and eventually the arena holds no block of that
\* request.
C13_Cancellation ==
    /\ [][\A r \in Requests :
            requests[r].stage = "cancelled" =>
                /\ requests'[r].stage = "cancelled"
                /\ requests'[r].received = NoResponse
                /\ requests'[r].consumes = 0]_vars
    /\ \A r \in Requests :
            (requests[r].stage = "cancelled") ~> (arena[r] = <<>>)

\* a requester has stopped waiting for a request whose worker has finished
\* it, and the result is still in the arena
C13_Witness ==
    \E r \in Requests :
        /\ requests[r].stage = "cancelled"
        /\ requests[r].done
        /\ arena[r] # <<>>

\* C14: a requester whose request failed on the worker receives the error
\* raised there, kind and message: not-found for a warp that yields no valid
\* data, the internal error of the detail mask asked for without a mask
\* dataset; and the worker that raised it has a free slot again.
C14_WorkerErrorsReachRequester ==
    \A r \in Requests :
        /\ (requests[r].stage = "consumed"
            /\ requests[r].item = "imageEmpty")
           => requests[r].received = NotFound("No valid data.")
        /\ (requests[r].stage = "consumed"
            /\ requests[r].item = "detailMaskNoMask")
           => requests[r].received
                = InternalError
                    ("Unimplemented: TODO: generate metatile from data.")
        /\ (requests[r].done
            /\ requests[r].item \in {"imageEmpty", "detailMaskNoMask"})
           => /\ requests[r].response.status # "ok"
              /\ workers[requests[r].worker].req # r

\* a requester has received a worker's error, and that worker has been
\* handed another request
C14_Witness ==
    \E r, q \in Requests :
        /\ requests[r].stage = "consumed"
        /\ requests[r].received.status = "InternalError"
        /\ q \in InFlight(requests[r].worker)

\* C15: a worker has opened each dataset it keeps exactly once, under the
\* path and the mask requirement it was resolved for: resolving a key again
\* opens nothing, resolving the same path for the other requirement yields a
\* handle of its own; and every handle a worker keeps it has opened itself,
\* none comes from another worker.
C15_CacheDeterminism ==
    /\ \A w \in Workers : \A k \in CacheKeys :
        workers[w].opens[k] = IF k \in workers[w].cache THEN 1 ELSE 0
    /\ \A r \in Requests :
        requests[r].done =>
            LET c == workers[requests[r].worker].cache
            IN  /\ requests[r].item \in {"imageEmpty", "imageMasked"}
                   => <<1, "dataset">> \in c
                /\ requests[r].item = "detailMask" => <<1, "mask">> \in c

\* one worker has resolved the same path for both requirements, after a
\* request that resolved it twice for the same one
C15_Witness ==
    \E w \in Workers :
        /\ workers[w].cache = {<<1, "dataset">>, <<1, "mask">>}
        /\ \E r \in Requests :
            /\ requests[r].worker = w
            /\ requests[r].done
            /\ requests[r].item = "imageMasked"

(***************************************************************************)
(* Properties of the worker-side dispatch.                                  *)
(***************************************************************************)

\* C18: a request whose operation is none of image, mask, detailMask ends
\* as an internal error handed to the requester, and the worker process
\* lives on.
C18_UnknownOperationIsInternalError ==
    [][(/\ wstage = "submitted"
        /\ wstage' # "submitted"
        /\ wreq.operation \notin Operations)
       => /\ result'.status = "InternalError"
          /\ wstage' = "done"]_vars

(***************************************************************************)
(* Properties of a failed preparation and of a restart.                     *)
(***************************************************************************)

\* a preparation has just ended
PrepareDone == gstate = "preparing" /\ gstate' \in {"ready", "error"}

\* a file request has just been taken
RequestTaken == rstage = "idle" /\ rstage' # "idle"

\* C16: a preparation that fails (for the mesh generator: whenever the
\* output format is unsupported or has no configuration) leaves the
\* generator in error; a generator in error stays there until the process
\* ends or a changed-unsafe definition puts it into preparing; a request it
\* takes meanwhile is answered at once by one error, with no task.
C16_FailedPreparationStays ==
    [][/\ (/\ PrepareDone
           /\ gkind = "mesh"
           /\ (definition_.format # "geodataJson"
               \/ ~definition_.formatConfig))
          => gstate' = "error"
       /\ (PrepareDone /\ lastPrep' = "failed") => gstate' = "error"
       /\ gstate = "error"
          => \/ gstate' \in {"error", "none"}
             \/ gstate' = "preparing" /\ UnsafeChange
       /\ (gstate = "error" /\ RequestTaken)
          => /\ rstage' = "answered"
             /\ task' = NoTask
             /\ Len(sink') = 1
             /\ sink'[1].kind = "error"]_vars

\* a request has been answered by a generator whose preparation failed on
\* the output format
C16_Witness ==
    /\ gstate = "error"
    /\ gkind = "mesh"
    /\ definition_.format # "geodataJson"
    /\ lastPrep = "failed"
    /\ rstage = "answered"
    /\ rfile.type = "geo"
    /\ Len(sink) = 1

\* C17: a tiled generator constructed again for an unchanged resource whose
\* tile index a preparation has persisted is ready at construction, with
\* the persisted index; and the persisted index files change only in a
\* preparation.
C17_RestartUsesPersistedIndex ==
    [][/\ (/\ gkind = "tiled"
           /\ gstate = "none"
           /\ gstate' # "none"
           /\ ~enforced
           /\ lastPrep = "ok"
           /\ deliveryIndex.exists
           /\ deliveryIndex.complete)
          => /\ gstate' = "ready"
             /\ index_'.set
             /\ index_'.tiles = deliveryIndex.tiles
       /\ (\/ tilesetIndex' # tilesetIndex
           \/ deliveryIndex' # deliveryIndex)
          => PrepareDone]_vars

\* C20: a preparation of the mesh generator that fails leaves metadata.json
\* as it was, one that succeeds leaves the document of the artifact it has
\* just written; and a metadata.json that validates against the artifact
\* was written by the preparation that wrote the artifact.
C20_MetadataOnlyAfterSuccess ==
    [][/\ (PrepareDone /\ gkind = "mesh" /\ gstate' = "error")
          => metadataJson' = metadataJson
       /\ (PrepareDone /\ gkind = "mesh" /\ gstate' = "ready")
          => /\ metadataJson'.complete
             /\ metadataJson'.content.extents = ExtentsJson(geodata'.data)
       /\ (gkind = "mesh" /\ MetadataValidates')
          => metadataJson'.content.extents = ExtentsJson(geodata'.data)]_vars

(***************************************************************************)
(* Properties of the preprocessing script.                                  *)
(***************************************************************************)

\* C19: when mapproxy-calipers exits with a status other than zero,
\* mapproxy-tiling is not run; the failure is an exception carrying the
\* tool's error text when there is some, and an exit with status 1 when
\* there is none; whatever the status and whether verbose or not.
C19_CalipersFailureStopsTiling ==
    (srun.ran /\ sargs.returncode # 0)
    => /\ srun.tiling = <<>>
       /\ sargs.stderr # ""
          => srun.raised = "Exception" /\ srun.value = sargs.stderr
       /\ sargs.stderr = ""
          => srun.raised = "SystemExit" /\ srun.value = "1"

(***************************************************************************)
(* Properties of the tiled generator's tasks.                               *)
(***************************************************************************)

\* a Task of the tiled generator runs in this step
TiledTaskRuns == gkind = "tiled" /\ rstage = "task" /\ rstage' = "answered"

\* C21: a metatile or geo Task of the tiled generator that starts with the
\* Sink already aborted ends as aborted: it writes nothing to the Sink and
\* dispatches nothing to the warper.
C21_AbortCheckedFirst ==
    [][(TiledTaskRuns /\ aborted')
       => /\ sink' = sink
          /\ dispatched' = <<>>]_vars

(***************************************************************************)
(* Properties of the steps of one warp request.                             *)
(***************************************************************************)

\* the steps of a request, the opening of a dataset on a cache miss left out
StepsOf(t) == SelectSeq(t, LAMBDA e : e.ev # "open")

StepNames(t) == [i \in 1..Len(t) |-> <<t[i].ev, t[i].role>>]

IsPrefix(a, b) == Len(a) <= Len(b) /\ \A i \in 1..Len(a) : a[i] = b[i]

\* the steps of a complete image or mask warp
WarpSteps(req) ==
    <<<<"resolve:dataset", "primary">>, <<"derive", "primary">>
      , <<"warp", "primary">>>>
    \o (IF req.mask # NoPath
        THEN <<<<"resolve:dataset", "mask">>, <<"derive", "mask">>
               , <<"warp", "mask">>, <<"applyMask", "mask">>>>
        ELSE <<>>)
    \o <<<<"alloc", "result">>, <<"fill", "result">>>>

\* C22: the steps of an image or mask warp are, in this order and once
\* each, resolve primary, warp primary, and with a mask dataset resolve
\* mask, warp mask into the same geometry, apply mask, then allocate and
\* fill the result; a request that fails stops somewhere in this order, one
\* that succeeds has made every step; a dataset is opened only within its
\* own resolve step.
C22_StepsInOrder ==
    (/\ wstage = "done"
     /\ wreq.operation \in {"image", "mask"})
    => /\ IsPrefix(StepNames(StepsOf(trace)), WarpSteps(wreq))
       /\ result.status = "ok"
          => StepNames(StepsOf(trace)) = WarpSteps(wreq)
       /\ \A i \in 1..Len(trace) :
            /\ trace[i].ev = "open"
               => /\ i > 1
                  /\ trace[i - 1].ev = "resolve:dataset"
                  /\ trace[i - 1].role = trace[i].role
                  /\ trace[i - 1].arg = trace[i].arg
            /\ trace[i].ev = "resolve:dataset"
               => trace[i].arg = (IF trace[i].role = "primary"
                                  THEN wreq.dataset ELSE wreq.mask)
            /\ trace[i].ev = "derive"
               => trace[i] = deriveInMemory(trace[i].role, wreq.size)

C22_Witness ==
    /\ wstage = "done"
    /\ wreq.operation = "mask"
    /\ wreq.mask # NoPath
    /\ wreq.mask # wreq.dataset
    /\ result.status = "ok"
    /\ Len(trace) = 11

(***************************************************************************)
(* Properties of the result's allocation.                                   *)
(***************************************************************************)

\* the bytes of the pixels of the matrix a successful request returns
ResultDataSize(req) ==
    CASE req.operation = "image" ->
            req.size.width * req.size.height
            * ElemSize8U * Channels(req.dataset)
      [] req.operation = "detailMask" ->
            req.size.width * req.size.height * ElemSize64F
      [] req.operation = "mask" ->
            maskMatSize(req.cm).width * maskMatSize(req.cm).height
            * ElemSize8U

\* C23: a warp that succeeds has allocated exactly one block of the managed
\* buffer, of the size of the matrix header plus the pixels of the result
\* (target size by 8 bits by the source's channels for image, target size
\* by the mask's element for detailMask, the validity mask's own size and
\* element for mask), and the matrix keeps its pixels in that block right
\* after the header.
C23_OneExactAllocation ==
    [][(Processed /\ result'.status = "ok")
       => /\ Len(mb') = Len(mb) + 1
          /\ mb'[Len(mb')] = MatHeaderSize + ResultDataSize(wreq')
          /\ result'.mat = mb'[Len(mb')]
          /\ Cardinality(EventsNamed(trace', "alloc")) = 1
          /\ \A i \in EventsNamed(trace', "alloc") :
                trace'[i].arg = mb'[Len(mb')]
          /\ \A i \in EventsNamed(trace', "fill") :
                trace'[i].arg = MatHeaderSize]_vars

C23_Witness ==
    /\ wstage = "done"
    /\ wreq.operation = "mask"
    /\ area(wreq.size) # area(maskMatSize(wreq.cm))
    /\ result.status = "ok"
    /\ mb = <<MatHeaderSize + NumPixels>>

\* the worker's run of warp() on the request in its slot has ended
WarpEnded == wstage = "submitted" /\ wstage' # "submitted"

\* C24: a warp that fails, by an empty validity mask before or after the
\* masking, by the detail mask's missing mask dataset, or by a dataset that
\* cannot be opened, leaves the managed buffer as it was: it has allocated
\* nothing.
C24_FailureAllocatesNothing ==
    [][(WarpEnded /\ result'.status # "ok")
       => /\ mb' = mb
          /\ EventsNamed(trace', "alloc") = {}
          /\ result'.mat = 0]_vars

C24_Witness ==
    /\ wstage = "done"
    /\ wreq.operation = "image"
    /\ wreq.mask # NoPath
    /\ wreq.mask \in wreq.unopenable
    /\ PrimaryWarped
    /\ wreq.cm # {}
    /\ result = OpenFailed
    /\ mb = <<>>

(***************************************************************************)
(* Properties of the metadata's serialization.                              *)
(***************************************************************************)

\* C25: a Metadata built into JSON and parsed back is the same Metadata:
\* the same extents, component by component, the same position and the
\* same fileSize, whatever the size.
C25_MetadataRoundTrip ==
    rtStage = "parsed"
    => /\ reparsed.ok
       /\ reparsed.metadata.extents = original.extents
       /\ reparsed.metadata.position = original.position
       /\ reparsed.metadata.fileSize = original.fileSize

(***************************************************************************)
(* Properties of the tiled generator's delivery index.                      *)
(***************************************************************************)

\* C26: delivery.index, when there, is a completely written index; it
\* changes only in a preparation that succeeds, to the index that
\* preparation has written; index_ is set only to the content of the
\* delivery.index in place; and a preparation that fails leaves both
\* delivery.index and index_ as they were.
C26_DeliveryIndexAtomic ==
    [][gkind = "tiled"
       => /\ deliveryIndex'.exists => deliveryIndex'.complete
          /\ deliveryIndex' # deliveryIndex
             => /\ PrepareDone
                /\ gstate' = "ready"
                /\ deliveryIndex'.version = definition_.version
                /\ deliveryIndex' = tilesetIndex'
          /\ (index_' # index_ /\ index_'.set)
             => /\ PrepareDone
                /\ deliveryIndex'.exists
                /\ index_'.version = deliveryIndex'.version
                /\ index_'.tiles = deliveryIndex'.tiles
          /\ (PrepareDone /\ gstate' = "error")
             => /\ deliveryIndex' = deliveryIndex
                /\ index_' = index_]_vars

C26_Witness ==
    /\ gkind = "tiled"
    /\ gstate = "error"
    /\ lastPrep = "failed"
    /\ deliveryIndex.exists
    /\ deliveryIndex.complete
    /\ deliveryTmp.exists
    /\ ~deliveryTmp.complete
    /\ deliveryTmp.version # deliveryIndex.version

\* the runs of the range estimation and the tiling on the output directory
DatasetRuns ==
    {i \in 1..Len(srun.tools) :
        /\ ~srun.tools[i].help
        /\ srun.tools[i].tool \in {"mapproxy-calipers", "mapproxy-tiling"}}

\* C27: whatever the flags -o and -u and whether the output directory is
\* there or not: with the directory there and neither flag the script
\* fails with no external program started and the directory as it was; and
\* mapproxy-calipers and mapproxy-tiling only ever run on an output
\* directory that is there and holds the virtual datasets.
C27_OutputDirectory ==
    srun.ran
    => /\ (sargs.dir.exists /\ ~sargs.o /\ ~sargs.u)
          => /\ srun.raised = "Exception"
             /\ srun.tools = <<>>
             /\ srun.dir = sargs.dir
       /\ \A i \in DatasetRuns :
            /\ srun.tools[i].dir.exists
            /\ srun.tools[i].dir.vrt

\* the ids of the range<srs> lines of the output, in output order
RECURSIVE SrsLines(_)
SrsLines(lines) ==
    IF lines = <<>> THEN <<>>
    ELSE LET rest == SrsLines(Tail(lines))
         IN  IF Head(lines).kind = "rangeSrs"
             THEN <<Head(lines).id>> \o rest
             ELSE rest

\* C29: when get_ranges runs mapproxy-tiling, --lodRange is the LOD range
\* of the `range:` line, the one returned as srange[0], and there is one
\* --tileRange per `range<srs>:` line, in the order of the output; for any
\* number and order of the lines.
C29_TilingArguments ==
    (srun.ran /\ srun.tiling # <<>>)
    => /\ Len(srun.tiling) = 1
       /\ srun.tiling[1].lodRange = srun.srange[1]
       /\ srun.tiling[1].tileRange = SrsLines(sargs.lines)
       /\ srun.tileranges = SrsLines(sargs.lines)

(***************************************************************************)
(* Properties of the mesh generator's construction.                         *)
(***************************************************************************)

\* the mesh generator has just been constructed
MeshConstructed == gkind = "mesh" /\ gstate = "none" /\ gstate' # "none"

\* C28: the mesh generator constructed with no enforced change is ready
\* when metadata.json loads and records the size the artifact has, and is
\* unprepared otherwise: with no metadata.json, with one that does not
\* parse, with no artifact, with an artifact of another size; it is never
\* in error.
C28_ConstructionFailureIsNotReady ==
    [][(MeshConstructed /\ ~enforced)
       => /\ gstate' \in {"ready", "unprepared"}
          /\ ~metadataJson.exists => gstate' = "unprepared"
          /\ ~metadataJson.complete => gstate' = "unprepared"
          /\ ~loadMetadata(metadataJson).ok => gstate' = "unprepared"
          /\ ~geodata.exists => gstate' = "unprepared"
          /\ (/\ loadMetadata(metadataJson).ok
              /\ geodata.exists
              /\ loadMetadata(metadataJson).metadata.fileSize
                 # geodata.size)
             => gstate' = "unprepared"
          /\ gstate' = "ready"
             <=> /\ loadMetadata(metadataJson).ok
                 /\ geodata.exists
                 /\ loadMetadata(metadataJson).metadata.fileSize
                    = geodata.size]_vars

C28_Witness ==
    /\ gkind = "mesh"
    /\ gstate = "unprepared"
    /\ ~enforced
    /\ lastPrep = "never"
    /\ metadataJson.complete
    /\ metadataJson.content.fileSize = 1
    /\ geodata.exists
    /\ geodata.size = 0

(***************************************************************************)
(* Properties of the definition's serialization.                            *)
(***************************************************************************)

\* C30: a TmsRasterSynthetic definition built into JSON and parsed into a
\* new definition has the mask it had, none when it had none, and the
\* format it had; comparing the two, either way round, reports no change.
C30_DefinitionRoundTrip ==
    /\ rtStage \in {"parsed", "compared"}
       => /\ reparsed.ok
          /\ reparsed.def.mask.set = original.mask.set
          /\ OptionalEq(reparsed.def.mask, original.mask)
          /\ reparsed.def.format = original.format
    /\ rtStage = "compared"
       => /\ changedFwd = "no"
          /\ changedRev = "no"

C30_Witness ==
    /\ rtStage = "compared"
    /\ ~original.mask.set
    /\ original.format = "png"
    /\ document.members = {"common", "format"}
    /\ changedFwd = "no"

====
